--------------------------- MODULE MCCredentials ----------------------------
(***************************************************************************)
(* A small instance of Credentials: a user with two open sessions where    *)
(* two are allowed, and three requests that log in, log out, change or     *)
(* reset the password, suspend and reactivate, each at any moment.         *)
(***************************************************************************)
EXTENDS Credentials, TLC

CONSTANTS ann, old, new, c1, c2, r1, r2, r3

MCUsers == {ann}
MCRequests == {r1, r2, r3}
MCFirstWord == [u \in MCUsers |-> old]

At(token, u) == [token |-> token, user |-> u, version |-> 1, word |-> old, born |-> 0]
MCOpened == {At(c1, ann), At(c2, ann)}

Ask(kind, u, cookie, word, next) ==
  [kind |-> kind, user |-> u, cookie |-> cookie, word |-> word, new |-> next]

MCCalls ==
  {Ask("login", ann, c1, old, old), Ask("login", ann, c1, new, new),
   Ask("logout", ann, c1, old, old),
   Ask("change", ann, c1, old, new),
   Ask("reset", ann, c1, old, old),
   Ask("suspend", ann, c1, old, old), Ask("reactivate", ann, c1, old, old)}

Symmetry == Permutations(MCRequests)

=============================================================================
