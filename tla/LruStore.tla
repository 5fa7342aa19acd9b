------------------------------ MODULE LruStore ------------------------------
(***************************************************************************)
(* The LRU store of sonnet-cache-v2 (store/lru.go): a map of elements, the *)
(* linked list that orders them (container/list, pointer by pointer), the  *)
(* times they expire at and the account of bytes.  The operators give the  *)
(* store after an operation that holds the lock.                           *)
(***************************************************************************)
EXTENDS Integers, FiniteSets, FiniteSetsExt

CONSTANTS EntryKeys, Elems,   \* list elements
          Root,          \* the sentinel of the list
          None, MaxBytes

Nodes == Elems \cup {Root}

\* newLRUCache
NewStore ==
  [next |-> [e \in Nodes |-> IF e = Root THEN Root ELSE None],
   prev |-> [e \in Nodes |-> IF e = Root THEN Root ELSE None],
   own |-> {}, len |-> 0,                      \* elements whose `list' is this one, list.Len()
   items |-> [k \in EntryKeys |-> None],
   key |-> [e \in Elems |-> None], size |-> [e \in Elems |-> 0],   \* the entry, key and value
   expires |-> [k \in EntryKeys |-> "never"],       \* or "later", "past"
   used |-> 0]

-----------------------------------------------------------------------------
\* container/list.
Unlinked(s, e) ==
  [s EXCEPT !.next[s.prev[e]] = s.next[e], !.prev[s.next[e]] = s.prev[e]]

Linked(s, e, at) ==
  LET after == s.next[at] IN
  [s EXCEPT !.next = [@ EXCEPT ![e] = after, ![at] = e],
            !.prev = [@ EXCEPT ![e] = at, ![after] = e]]

PushBack(s, e) == LET t == Linked(s, e, s.prev[Root]) IN [t EXCEPT !.own = @ \cup {e}, !.len = @ + 1]

ListRemove(s, e) ==
  IF e \notin s.own THEN s
  ELSE LET t == Unlinked(s, e) IN
       [t EXCEPT !.next[e] = None, !.prev[e] = None, !.own = @ \ {e}, !.len = @ - 1]

MoveToBack(s, e) ==
  IF e \notin s.own \/ s.prev[Root] = e THEN s ELSE Linked(Unlinked(s, e), e, s.prev[Root])

\* Init of the list: its elements keep their `list'.
ListInit(s) == [s EXCEPT !.next[Root] = Root, !.prev[Root] = Root, !.len = 0]

-----------------------------------------------------------------------------
removeElement(s, e) ==
  LET t == ListRemove(s, e) IN
  [t EXCEPT !.items[s.key[e]] = None, !.expires[s.key[e]] = "never", !.used = @ - s.size[e]]

\* evict removes the expired ones, then the least recently used while there are too many bytes.
evictOne(t) ==
  LET old == {k \in EntryKeys : t.expires[k] = "past" /\ t.items[k] # None} IN
  IF old # {} THEN removeElement(t, t.items[CHOOSE k \in old : TRUE])
  ELSE IF MaxBytes > 0 /\ t.used > MaxBytes /\ t.len > 0 THEN removeElement(t, t.next[Root])
  ELSE t

evict(s) ==
  LET left[n \in 0 .. s.len] == IF n = 0 THEN s ELSE evictOne(left[n - 1])
  IN  left[s.len]

\* SetWithExpiration of a value that, with its key, has n bytes; e is a new element.
SetWithExpiration(s, k, n, ttl, e) ==
  LET t == [s EXCEPT !.expires[k] = IF ttl THEN "later" ELSE "never"]  old == s.items[k] IN
  IF old # None
  THEN MoveToBack([t EXCEPT !.used = @ + n - s.size[old], !.size[old] = n], old)
  ELSE evict([PushBack([t EXCEPT !.key[e] = k, !.size[e] = n], e) EXCEPT !.items[k] = e, !.used = @ + n])

Delete(s, k) == IF s.items[k] # None THEN removeElement(s, s.items[k]) ELSE s

Clear(s) ==
  [ListInit(s) EXCEPT !.items = [k \in EntryKeys |-> None], !.expires = [k \in EntryKeys |-> "never"], !.used = 0]

\* Get's second half: the element is moved if its key is there.
Touch(s, k, e) == IF s.items[k] # None THEN MoveToBack(s, e) ELSE s

-----------------------------------------------------------------------------
\* The garbage collector: elements that are neither in a list nor held by a goroutine
\* are free.  After a Clear they point to each other, so one that is held keeps all.
Free(s, held) == CHOOSE e \in Elems : e \notin s.own \cup held

Collected(s, held) ==
  LET own == IF s.len = 0 /\ held \cap s.own = {} THEN {} ELSE s.own
      Live(e) == e \in own \cup held
  IN [s EXCEPT !.own = own,
               !.next = [e \in Nodes |-> IF e = Root \/ e \in own THEN s.next[e] ELSE None],
               !.prev = [e \in Nodes |-> IF e = Root \/ e \in own THEN s.prev[e] ELSE None],
               !.key = [e \in Elems |-> IF Live(e) THEN s.key[e] ELSE None],
               !.size = [e \in Elems |-> IF Live(e) THEN s.size[e] ELSE 0]]
=============================================================================
