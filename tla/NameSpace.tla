----------------------------- MODULE NameSpace ------------------------------
(***************************************************************************)
(* What a directory tree promises to its users: a set of links, each a     *)
(* name in a directory that leads to an inode, at most one link for a name *)
(* of a directory; a step adds, removes or moves exactly one link.  Slots, *)
(* pages, inodes and handles are hidden.                                   *)
(***************************************************************************)
VARIABLE links    \* the links <<directory, name, inode>>

Init == links = {}

Taken(d, n) == \E l \in links : l[1] = d /\ l[2] = n

Link(l) ==
  /\ ~Taken(l[1], l[2])
  /\ links' = links \cup {l}

Unlink(l) == links' = links \ {l}

(* The link l becomes the link m, of the same inode.                       *)
Move(l, m) ==
  /\ m[3] = l[3]
  /\ ~Taken(m[1], m[2])
  /\ links' = (links \ {l}) \cup {m}

(* Which links come and go is the user's choice; it is read off links'.    *)
Next ==
  \/ \E l \in links' \ links : Link(l)
  \/ \E l \in links \ links' : Unlink(l) \/ \E m \in links' \ links : Move(l, m)

Spec == Init /\ [][Next]_links
=============================================================================
