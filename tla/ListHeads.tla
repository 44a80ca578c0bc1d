----------------------------- MODULE ListHeads ------------------------------
(***************************************************************************)
(* The intrusive lists of list.c, with their pointers.                     *)
(*                                                                         *)
(* A list is a ring: its head, and the nodes in the PCBs that are linked   *)
(* in it.  The other modules of the kernel take a list for the sequence of *)
(* its nodes, as long as nobody links a node that is linked or unlinks one *)
(* that is not; `lists' is the history of the calls in these terms, and    *)
(* the properties say that the pointers tell the same.                     *)
(*                                                                         *)
(* A loop over a list is modelled step by step, for its body changes the   *)
(* pointers it runs along.  Interrupts are off: only the body makes calls. *)
(***************************************************************************)
EXTENDS Integers, SequencesExt

CONSTANTS
  Node,      \* the list_heads that are linked: list, parentAnchor, waitAnchor, ...
  List,      \* those that are heads: the queues, fills, waitList, ...
  NULL

ASSUME ListAssumption == Node \cap List = {} /\ NULL \notin Node \cup List

Anchor == Node \cup List

VARIABLES
  next, prev,   \* the two pointers of an anchor
  loop,         \* the loop under way: its list, its body, and its cursors
  lists,        \* history: the nodes of each list, in order
  ready,        \* history: the heads that are the head of a ring
  todo          \* history: the nodes that the loop has not met yet

ptrvars == <<next, prev>>
listvars == <<ptrvars, loop, lists, ready, todo>>

NoLoop == [head |-> NULL, body |-> "none", into |-> NULL, pos |-> NULL, n |-> NULL]

Looping == loop # NoLoop
Listed(e) == \E h \in List : Contains(lists[h], e)

----------------------------------------------------------------------------
(* list.c *)

\* What is read through NULL is none of the kernel's, and what is written
\* there changes no anchor.
At(f, a) == IF a \in Anchor THEN f[a] ELSE NULL

INIT_LIST_HEAD(list) ==
  /\ next' = [next EXCEPT ![list] = list]
  /\ prev' = [prev EXCEPT ![list] = list]

\* Mutation: the entry before is not told.
list_add_one_way(new, before, after) ==
  /\ next' = [next EXCEPT ![new] = after]
  /\ prev' = [prev EXCEPT ![after] = new, ![new] = before]

\* __list_add
list_add_between(new, before, after) ==
  /\ next' = [next EXCEPT ![new] = after, ![before] = new]
  /\ prev' = [prev EXCEPT ![after] = new, ![new] = before]

list_add(new, head)      == list_add_between(new, head, next[head])
list_add_tail(new, head) == list_add_between(new, prev[head], head)

list_del(entry) ==
  /\ next' = [next EXCEPT ![prev[entry]] = next[entry], ![entry] = NULL]
  /\ prev' = [prev EXCEPT ![next[entry]] = prev[entry], ![entry] = NULL]

list_empty(head)         == next[head] = head
list_first(head)         == next[head]
list_is_last(list, head) == next[list] = head

----------------------------------------------------------------------------
(* The calls.  The kernel links a node that is in no list in a list that   *)
(* was initialised; in the body of a loop it also does so in other lists.  *)

InitHead(h) ==
  /\ ~Looping /\ lists[h] = <<>>
  /\ INIT_LIST_HEAD(h)
  /\ ready' = ready \cup {h}
  /\ UNCHANGED <<loop, lists, todo>>

MayLink(e, h) == h \in ready /\ h # loop.head /\ ~Listed(e)

Link(e, h) ==
  /\ MayLink(e, h) /\ list_add(e, h)
  /\ lists' = [lists EXCEPT ![h] = <<e>> \o @]
  /\ UNCHANGED <<loop, ready, todo>>

LinkTail(e, h) ==
  /\ MayLink(e, h) /\ list_add_tail(e, h)
  /\ lists' = [lists EXCEPT ![h] = Append(@, e)]
  /\ UNCHANGED <<loop, ready, todo>>

\* The node in place k of the list of h.
Unlink(h, k) ==
  /\ h # loop.head
  /\ list_del(lists[h][k])
  /\ lists' = [lists EXCEPT ![h] = RemoveAt(@, k)]
  /\ UNCHANGED <<loop, ready, todo>>

----------------------------------------------------------------------------
(* The loops: unblock looks at the nodes of a list; exit links those of    *)
(* one list in another, without unlinking them, and unlinks those of a     *)
(* third.  The list whose nodes were linked elsewhere is a ring no more,   *)
(* until it is initialised for the next owner of the PCB.  list_for_each,  *)
(* which unblock uses, reads the next node later, with the same result: a  *)
(* body that looks changes nothing.                                        *)

Bodies == {"look", "adopt", "unlink"}

Begin(h, body, into) ==
  /\ ~Looping /\ h \in ready
  /\ IF body = "adopt" THEN into \in ready \ {h} ELSE into = NULL
  /\ loop' = [head |-> h, body |-> body, into |-> into,
              pos |-> next[h], n |-> At(next, next[h])]
  /\ todo' = lists[h]
  /\ ready' = IF body = "adopt" THEN ready \ {h} ELSE ready
  /\ UNCHANGED <<ptrvars, lists>>

\* Mutation: the next node is read after the body, as list_for_each does.
AdvanceUnsafe ==
  loop' = [loop EXCEPT !.pos = next'[loop.pos], !.n = At(next', next'[loop.pos])]

\* pos = n, n = pos->next
Advance == loop' = [loop EXCEPT !.pos = loop.n, !.n = At(next', loop.n)]

Look(e) ==
  /\ loop.body = "look"
  /\ UNCHANGED <<ptrvars, lists>>

Adopt(e) ==
  /\ loop.body = "adopt" /\ list_add_tail(e, loop.into)
  /\ lists' = [lists EXCEPT ![loop.head] = Tail(@), ![loop.into] = Append(@, e)]

Release(e) ==
  /\ loop.body = "unlink" /\ list_del(e)
  /\ lists' = [lists EXCEPT ![loop.head] = Tail(@)]

Step ==
  /\ Looping /\ loop.pos # loop.head
  /\ Look(loop.pos) \/ Adopt(loop.pos) \/ Release(loop.pos)
  /\ Advance
  /\ todo' = Tail(todo)
  /\ UNCHANGED ready

End ==
  /\ Looping /\ loop.pos = loop.head
  /\ loop' = NoLoop
  /\ UNCHANGED <<ptrvars, lists, ready, todo>>

----------------------------------------------------------------------------
\* The kernel's memory is cleared.
ListInit ==
  /\ next = [a \in Anchor |-> NULL] /\ prev = [a \in Anchor |-> NULL]
  /\ loop = NoLoop
  /\ lists = [h \in List |-> <<>>] /\ ready = {} /\ todo = <<>>

ListNext ==
  \/ \E h \in List : InitHead(h)
  \/ \E e \in Node, h \in List : Link(e, h)
  \/ \E e \in Node, h \in List : LinkTail(e, h)
  \/ \E h \in List : \E k \in DOMAIN lists[h] : Unlink(h, k)
  \/ \E h \in List, body \in Bodies, into \in List \cup {NULL} : Begin(h, body, into)
  \/ Step
  \/ End

ListSpec == ListInit /\ [][ListNext]_listvars

(***************************************************************************)
(*                              PROPERTIES                                 *)
(***************************************************************************)

\* The anchor in place i of the ring of h, which begins and ends at h.
InRing(h, i) == IF i \in DOMAIN lists[h] THEN lists[h][i] ELSE h

\* A list is a ring through its nodes, in both directions, whatever was linked,
\* unlinked and moved in whatever order (list.c:18-79; sys.c:245-253).
ListsAreRings ==
  \A h \in ready : \A i \in 0 .. Len(lists[h]) :
    next[InRing(h, i)] = InRing(h, i + 1) /\ prev[InRing(h, i + 1)] = InRing(h, i)

\* What the scheduler asks of a list it is told (list.c:86-99; list.h:131).
AnswersRight ==
  \A h \in ready :
    /\ list_empty(h) <=> lists[h] = <<>>
    /\ list_first(h) = IF lists[h] = <<>> THEN h ELSE Head(lists[h])
    /\ \A e \in Node :
         list_is_last(e, h) <=> lists[h] # <<>> /\ e = lists[h][Len(lists[h])]

\* A loop meets every node that was in the list when it began, once and in
\* order, and ends, though its body takes them out of the ring it runs along
\* (list.h:114-125; sys.c:245-253).
LoopMeetsAll ==
  Looping => loop.pos = IF todo = <<>> THEN loop.head ELSE Head(todo)

\* A node that is in no list points nowhere: unlinking it again would touch no
\* list (list.c:74-79; sys.c:240).
UnlinkedIsNull ==
  \A e \in Node : ~Listed(e) => next[e] = NULL /\ prev[e] = NULL

=============================================================================
