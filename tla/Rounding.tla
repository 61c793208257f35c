------------------------------ MODULE Rounding ------------------------------
(***************************************************************************)
(* The rounding every bump allocator of the crate shares, in closed form.  *)
(***************************************************************************)
EXTENDS Integers

\* The smallest multiple of a that is at least n.
AlignUp(n, a) == ((n + a - 1) \div a) * a

=============================================================================
