------------------------------- MODULE DexCatch -------------------------------
(***************************************************************************)
(* The catch handlers of a method (DexCatch): the handler list for an      *)
(* address is searched in the table of tries, and an iterator walks it.    *)
(*                                                                         *)
(* The handler data is the sequence of its LEB128 numbers: the number of   *)
(* lists, and for each list its signed size, a type and an address for     *)
(* each handler and, if the size is not positive, the address of the       *)
(* handler that catches all.  Offsets count these numbers.                 *)
(***************************************************************************)
EXTENDS Integers, Sequences, FiniteSets

CONSTANTS
  CodeItems,   \* [tries, data], a try being [start, count, handler]
  Addresses,   \* the addresses a caller asks for
  AnyType      \* kDexNoIndex

VARIABLES
  item,
  call,        \* "ready", "search" the tries, "iterate"
  address,
  min, max,    \* the bounds of the search, counted from 0
  offset,      \* of the handler list found, or NoOffset
  cursor,      \* pEncodedData
  remaining,   \* countRemaining
  catchesAll,
  caught       \* the handlers the iterator returned

catchVars == <<item, call, address, min, max, offset, cursor, remaining, catchesAll, caught>>

iterator == <<cursor, remaining, catchesAll, caught>>

NoOffset == -1
NoAddress == -1

\* The lists of the handler data follow one another: list k, the first number
\* of which is its size, from places[k - 1] to places[k].
LaidOut(data) ==
  \E places \in [0 .. data[1] -> 1 .. Len(data)] :
    /\ places[0] = 1 /\ places[data[1]] = Len(data)
    /\ \A k \in 1 .. data[1] :
         LET size == data[places[k - 1] + 1]
         IN  /\ places[k - 1] < places[k]
             /\ places[k] = places[k - 1] + (IF size > 0 THEN 1 + 2 * size ELSE 2 - 2 * size)

\* Without tries there is no handler data; the list of a try is in it.
ASSUME CatchAssumption ==
  /\ \A c \in CodeItems :
       /\ c.tries \in Seq([start : Nat, count : Nat, handler : Nat])
       /\ c.data \in Seq(Int)
       /\ \A i \in DOMAIN c.tries : c.tries[i].handler < Len(c.data)
       /\ IF c.tries = << >> THEN c.data = << >> ELSE c.data[1] \in Nat /\ LaidOut(c.data)
  /\ Addresses \subseteq Nat

-----------------------------------------------------------------------------

Number(o) == item.data[o + 1]

\* Mutant: the size of a list is taken for positive.
CountAsStored(n) == n

Count(n) == IF n < 0 THEN -n ELSE n

\* dexCatchIteratorInit.
Iterate(o) ==
  /\ call' = "iterate"
  /\ cursor' = o + 1
  /\ remaining' = Count(Number(o))
  /\ catchesAll' = (Number(o) <= 0)
  /\ caught' = << >>

\* What dexFindCatchHandler does with the result of the search.
Conclude(o) ==
  /\ offset' = o
  /\ IF o = NoOffset THEN call' = "ready" /\ UNCHANGED iterator ELSE Iterate(o)

\* Mutant: a try covers the address behind its last instruction, too.
EndAfter(t) == t.start + t.count + 1

End(t) == t.start + t.count

\* dexFindCatchHandler, up to the search.
FindHandler(a) ==
  /\ call = "ready"
  /\ address' = a
  /\ LET n == Len(item.tries)
     IN  IF n > 1
         THEN /\ call' = "search" /\ min' = 0 /\ max' = n - 1 /\ offset' = NoOffset
              /\ UNCHANGED iterator
         ELSE /\ IF n = 1 /\ item.tries[1].start <= a /\ a < End(item.tries[1])
                 THEN Conclude(item.tries[1].handler)
                 ELSE Conclude(NoOffset)
              /\ UNCHANGED <<min, max>>
  /\ UNCHANGED item

\* dexFindCatchHandlerOffset0, one guess.
Guess ==
  /\ call = "search"
  /\ LET guess == (min + max) \div 2
         t == item.tries[guess + 1]
     IN  \/ /\ max < min
            /\ Conclude(NoOffset)
            /\ UNCHANGED <<min, max>>
         \/ /\ max >= min /\ address < t.start
            /\ max' = guess - 1
            /\ UNCHANGED <<call, offset, min, iterator>>
         \/ /\ max >= min /\ t.start <= address /\ End(t) <= address
            /\ min' = guess + 1
            /\ UNCHANGED <<call, offset, max, iterator>>
         \/ /\ max >= min /\ t.start <= address /\ address < End(t)
            /\ Conclude(t.handler)
            /\ UNCHANGED <<min, max>>
  /\ UNCHANGED <<item, address>>

\* dexCatchIteratorNext.
NextHandler ==
  /\ call = "iterate"
  /\ \/ /\ remaining = 0 /\ ~catchesAll
        /\ call' = "ready"
        /\ UNCHANGED iterator
     \/ /\ remaining = 0 /\ catchesAll
        /\ catchesAll' = FALSE
        /\ caught' = Append(caught, [type |-> AnyType, address |-> Number(cursor)])
        /\ cursor' = cursor + 1
        /\ UNCHANGED <<call, remaining>>
     \/ /\ remaining # 0
        /\ remaining' = remaining - 1
        /\ caught' = Append(caught, [type |-> Number(cursor), address |-> Number(cursor + 1)])
        /\ cursor' = cursor + 2
        /\ UNCHANGED <<call, catchesAll>>
  /\ UNCHANGED <<item, address, min, max, offset>>

\* dexCatchIteratorGetEndOffset: what the iterator has read when it ends.
EndOffset(o) == o + 1 + 2 * Count(Number(o)) + (IF Number(o) <= 0 THEN 1 ELSE 0)

\* dexGetDexCodeSize: the handler data's, from iterating over all the lists.
HandlersEnd ==
  LET end[n \in 0 .. Number(0)] == IF n = 0 THEN 1 ELSE EndOffset(end[n - 1])
  IN  IF item.tries = << >> THEN 0 ELSE end[Number(0)]

CatchStart(c) ==
  /\ item = c /\ call = "ready" /\ address = NoAddress /\ min = 0 /\ max = 0 /\ offset = NoOffset
  /\ cursor = 0 /\ remaining = 0 /\ catchesAll = FALSE /\ caught = << >>

CatchInit == \E c \in CodeItems : CatchStart(c)

CatchNext == (\E a \in Addresses : FindHandler(a)) \/ Guess \/ NextHandler

CatchSpec == CatchInit /\ [][CatchNext]_catchVars /\ WF_catchVars(Guess \/ NextHandler)

-----------------------------------------------------------------------------

\* The tries as the format has them: in the order of their addresses, none
\* over another.
Ordered(tries) ==
  \A i, j \in DOMAIN tries : i < j => tries[i].start + tries[i].count <= tries[j].start

Covering(a) == { i \in DOMAIN item.tries : item.tries[i].start <= a /\ a < item.tries[i].start + item.tries[i].count }

\* The search ends at the handler list of the try that covers the address, and
\* without one exactly if no try does, in whatever place of the table it lies.
HandlerFound ==
  Ordered(item.tries) =>
    \/ call = "search"
    \/ IF Covering(address) = {} THEN offset = NoOffset
       ELSE \E i \in Covering(address) : offset = item.tries[i].handler

\* The handlers of the list at an offset, as the format has them.
Listed(o) ==
  LET n == Number(o)
      typed == [ k \in 1 .. (IF n < 0 THEN -n ELSE n) |-> [type |-> Number(o + 2 * k - 1), address |-> Number(o + 2 * k)] ]
  IN  IF n > 0 THEN typed ELSE Append(typed, [type |-> AnyType, address |-> Number(o + 1 - 2 * n)])

\* The iterator returns each handler of the list found, the one for all types
\* last, and iterating over all the lists ends where the handler data does.
HandlersListed ==
  /\ HandlersEnd = Len(item.data)
  /\ (call = "ready" /\ offset # NoOffset) => caught = Listed(offset)
=============================================================================
