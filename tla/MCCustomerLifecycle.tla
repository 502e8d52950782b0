---- MODULE MCCustomerLifecycle ----
(* One customer, one module, one user write. *)
EXTENDS CustomerLifecycle

CONSTANT w

MCWrites == {w}
====
