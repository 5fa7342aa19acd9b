------------------------------ MODULE Lru2List ------------------------------
(***************************************************************************)
(* Abstract specification of the internal `cache' of lru2.go: a list and   *)
(* what its last operation returned and reported to onEvicted.             *)
(***************************************************************************)
EXTENDS Lru2Ops

CONSTANTS Keys, Values, Times, Cap

VARIABLES list, out

LInit == list = <<>> /\ out = Returns("create", 0, {})

LPut(k, v, e) ==
  /\ list' = Put(list, Cap, k, v, e)
  /\ out' = Returns("put", IF Find(list, k) = 0 THEN 1 ELSE 0, Evicts(list, Cap, k))
LGet(k) ==
  /\ list' = Touch(list, k)
  /\ out' = Returns("get", IF Find(list, k) = 0 THEN 0 ELSE 1, {})
LDel(k) ==
  /\ list' = Del(list, k)
  /\ out' = Returns("del", IF Live(list, k) THEN 1 ELSE 0, {})

LNext == \E k \in Keys : LGet(k) \/ LDel(k) \/ \E v \in Values, e \in Times : LPut(k, v, e)

LSpec == LInit /\ [][LNext]_<<list, out>>
=============================================================================
