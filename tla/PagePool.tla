------------------------------ MODULE PagePool ------------------------------
(***************************************************************************)
(* What the page allocator promises (zus.h, "pa_pages are ref-counted last *)
(* put frees the page"): a page belongs to the owners that hold a          *)
(* reference to it, allocation hands out only pages nobody holds, and a    *)
(* page is available again once its last reference was put.  The free      *)
(* list, the reference counts, the lock and the threads are all hidden.    *)
(***************************************************************************)
EXTENDS Integers

CONSTANTS Owners,      \* clients that can hold a reference to a page
          MaxPages,    \* number of pages PA_SIZE allows
          BlockSizes   \* numbers of pages one allocation may ask for

VARIABLES
  allocated,           \* the pages that were handed out and not yet freed
  holders              \* holders[p]: the owners that hold a reference to p

Pages == 0 .. MaxPages - 1

\* The n pages that start at page p.
Block(p, n) == p .. p + n - 1

Init ==
  /\ allocated = {}
  /\ holders = [p \in Pages |-> {}]

Alloc(p, n, o) ==
  /\ Block(p, n) \subseteq Pages
  /\ Block(p, n) \cap allocated = {}
  /\ allocated' = allocated \cup Block(p, n)
  /\ holders' = [q \in Pages |-> IF q \in Block(p, n) THEN {o} ELSE holders[q]]

Get(p, o) ==
  /\ p \in allocated
  /\ UNCHANGED allocated
  /\ holders' = [holders EXCEPT ![p] = @ \cup {o}]

Put(p, o) ==
  /\ o \in holders[p]
  /\ holders' = [holders EXCEPT ![p] = @ \ {o}]
  /\ allocated' = IF holders[p] = {o} THEN allocated \ {p} ELSE allocated

Next ==
  \E p \in Pages, o \in Owners :
    \/ \E n \in BlockSizes : Alloc(p, n, o)
    \/ Get(p, o)
    \/ Put(p, o)

Spec == Init /\ [][Next]_<<allocated, holders>>
=============================================================================
