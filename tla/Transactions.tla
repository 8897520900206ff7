------------------------------ MODULE Transactions ------------------------------
(***************************************************************************)
(* What the modules of correctable records share.  A person's request is    *)
(* one transaction; what it has changed and not committed is a function     *)
(* from the keys of the rows it changed, laid over what is committed when   *)
(* the request reads (PostgreSQL, READ COMMITTED).                          *)
(***************************************************************************)
EXTENDS Naturals

CONSTANT Session   \* people's requests in progress

Nothing == [x \in {} |-> 0]

\* Rows a request has changed and not committed.
IsChanges(changes, keys, rows) ==
  DOMAIN changes \subseteq keys /\ changes \in [DOMAIN changes -> rows]

Over(table, changes) ==
  [x \in DOMAIN table |-> IF x \in DOMAIN changes THEN changes[x] ELSE table[x]]
With(changes, x, row) ==
  [y \in DOMAIN changes \cup {x} |-> IF y = x THEN row ELSE changes[y]]
=============================================================================
