------------------------------ MODULE Registry ------------------------------
(***************************************************************************)
(* The slots in which a worker keeps its connections                       *)
(* (quantydb-server/src/registry.rs).                                      *)
(*                                                                         *)
(* A registry is [gen, conn, free]: gen[i] counts how often slot i changed *)
(* hands and wraps, odd while the slot is occupied; conn[i] is its         *)
(* connection or Vacant; free is the stack of slots given back.  A token   *)
(* is [index, gen].                                                        *)
(***************************************************************************)
EXTENDS Naturals, Sequences

CONSTANTS Vacant,               \* an empty slot
          Generations           \* values of a generation: even, 2^32 in the code

NoSlots == [gen |-> <<>>, conn |-> <<>>, free |-> <<>>]

wrapping_add(g) == (g + 1) % Generations

(* The slot the next connection takes, and the token it gets.              *)
NextIndex(reg) == IF reg.free = <<>> THEN Len(reg.gen) + 1 ELSE reg.free[Len(reg.free)]
NextToken(reg) ==
    [index |-> NextIndex(reg),
     gen |-> wrapping_add(IF reg.free = <<>> THEN 0 ELSE reg.gen[NextIndex(reg)])]

insert(reg, conn) ==
    IF reg.free = <<>>
    THEN [gen |-> Append(reg.gen, NextToken(reg).gen), conn |-> Append(reg.conn, conn), free |-> <<>>]
    ELSE [gen |-> [reg.gen EXCEPT ![NextIndex(reg)] = NextToken(reg).gen],
          conn |-> [reg.conn EXCEPT ![NextIndex(reg)] = conn],
          free |-> SubSeq(reg.free, 1, Len(reg.free) - 1)]

(* The connection a token names, or Vacant when the token is stale.        *)
get_mut(reg, token) ==
    IF token.index \in DOMAIN reg.gen /\ reg.gen[token.index] = token.gen
    THEN reg.conn[token.index] ELSE Vacant

Stored(reg, token, conn) == [reg EXCEPT !.conn[token.index] = conn]

remove(reg, token) ==
    IF get_mut(reg, token) = Vacant THEN reg
    ELSE [gen |-> [reg.gen EXCEPT ![token.index] = wrapping_add(@)],
          conn |-> [reg.conn EXCEPT ![token.index] = Vacant],
          free |-> Append(reg.free, token.index)]

(* The tokens of the live connections.                                     *)
Tokens(reg) ==
    {[index |-> i, gen |-> reg.gen[i]] : i \in {j \in DOMAIN reg.conn : reg.conn[j] # Vacant}}

=============================================================================
