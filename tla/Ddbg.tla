-------------------------------- MODULE Ddbg --------------------------------
(***************************************************************************)
(* The dynamic debug messages (printz.c): a table of the messages of every *)
(* library, which the kernel reads a buffer at a time and switches on and  *)
(* off with queries.  All of it runs in the mount thread, that has loaded  *)
(* the libraries before it serves the kernel.                              *)
(*                                                                         *)
(* Abstractions.  A message is its module, its place (file, function and   *)
(* format: one value), its line number and the length of its line of text. *)
(* A query is a list of tokens, made of phrases; a quote stands for one    *)
(* that the rest of the query does not close, other quoting is left out.   *)
(* External: the reader in the kernel, that hands in an empty buffer and   *)
(* asks with the id of the last answer until the answer is empty.          *)
(***************************************************************************)
EXTENDS Integers, Sequences, SequencesExt

CONSTANTS
  Libs,         \* the libraries in the order they load: name and messages
  BufLens,      \* sizes of the reader's buffer
  DbgTokens,    \* MAX_DDBG_CMD_TOKENS
  DbgPlaces,    \* the places of messages
  DbgLines,     \* the tokens that are numbers
  MaxPhrases    \* bound: the phrases of a query

ASSUME DbgAssumption ==
  /\ \A m \in DOMAIN Libs : \A x \in Range(Libs[m].msgs) :
       x.len \in Nat \ {0} /\ x.place \in DbgPlaces /\ x.line \in DbgLines
  /\ BufLens \subseteq Nat
  /\ DbgTokens \in Nat \ {0} /\ MaxPhrases \in Nat

VARIABLES
  dmods,    \* mod_count: the libraries in the table
  dact,     \* the ids of the messages that are active
  dread     \* the reader: zdi->id; the answers it got, each with the size of its
            \* buffer; and that size for the empty answer at the end

dbgVars == <<dmods, dact, dread>>

(* The messages of the first n libraries: _init_ddbg numbers them from 1   *)
(* in the order they are added.                                            *)
Table(n) ==
  FlattenSeq([m \in 1 .. n |->
    [j \in DOMAIN Libs[m].msgs |-> [mod |-> Libs[m].name] @@ Libs[m].msgs[j]]])

Ids == DOMAIN Table(dmods)
Serving == dmods = Len(Libs)

NoRead == [id |-> 0, got |-> <<>>, end |-> {}]

DbgTypeOK ==
  /\ dmods \in 0 .. Len(Libs)
  /\ dact \subseteq Ids
  /\ dread.id \in 0 .. Len(Table(dmods))

DbgInit == dmods = 0 /\ dact = {} /\ dread = NoRead

(* zus_add_module_ddbg                                                     *)
AddModule ==
  /\ dmods < Len(Libs)
  /\ dmods' = dmods + 1
  /\ UNCHANGED <<dact, dread>>

PageMut(id, n) ==
  LET t == Table(dmods)
      from[j \in 1 .. Len(t) + 1, left \in 0 .. n] ==
        IF j > Len(t) \/ left = 0 THEN <<>>
        ELSE IF j <= id \/ t[j].len > left THEN from[j + 1, left]
        ELSE <<[id |-> j, whole |-> t[j].len < left]>> \o from[j + 1, left - t[j].len]
  IN from[1, n]

(* The lines a buffer of n bytes takes behind message id.  One that is     *)
(* longer than what is left ends the answer, whatever comes behind it; one *)
(* that fills it counts, but its last byte gives way to the 0 of snprintf. *)
Page(id, n) ==
  LET t == Table(dmods)
      from[j \in 1 .. Len(t) + 1, left \in 0 .. n] ==
        IF j > Len(t) \/ left = 0 THEN <<>>
        ELSE IF j <= id THEN from[j + 1, left]
        ELSE IF t[j].len > left THEN <<>>
        ELSE <<[id |-> j, whole |-> t[j].len < left]>> \o from[j + 1, left - t[j].len]
  IN from[1, n]

(* zus_ddbg_read: the id of the last message goes back to the reader.      *)
DdbgRead(n) ==
  /\ Serving /\ dread.end = {}
  /\ LET page == Page(dread.id, n)
     IN dread' = IF page = <<>> THEN [dread EXCEPT !.end = {n}]
                 ELSE [dread EXCEPT !.id = Last(page).id,
                                    !.got = Append(@, [n |-> n, lines |-> page])]
  /\ UNCHANGED <<dmods, dact>>

(* External: the reader starts again.                                      *)
DdbgReopen ==
  /\ dread.end # {}
  /\ dread' = NoRead
  /\ UNCHANGED <<dmods, dact>>
-----------------------------------------------------------------------------
(* Queries.                                                                *)

Keys == {"module", "place", "line"}
Cmds == {"+p", "-p"}
Unset == [err |-> FALSE, module |-> "", place |-> "", line |-> "", cmd |-> ""]

(* _tokenize: a comment, or a quote that is not closed, ends the tokens.   *)
Tokens(toks) ==
  LET n == SelectInSeq(toks, LAMBDA x : x \in {"#", "quote"})
  IN IF n = 0 THEN toks ELSE SubSeq(toks, 1, n - 1)
Unclosed(toks) == toks # Tokens(toks) /\ toks[Len(Tokens(toks)) + 1] = "quote"

ParseMut(q) ==
  LET toks == Tokens(q)
      one(c, j) ==
        IF toks[j] \in Cmds THEN [c EXCEPT !.cmd = toks[j]]
        ELSE IF /\ toks[j] \in Keys /\ j < Len(toks)
                /\ toks[j] = "line" => toks[j + 1] \in DbgLines
             THEN [c EXCEPT ![toks[j]] = toks[j + 1]]
        ELSE [c EXCEPT !.err = TRUE]
      from[j \in 0 .. Len(toks)] ==
        IF j = 0 THEN Unset
        ELSE IF j > 1 /\ toks[j - 1] \in Keys /\ toks[j] \notin Cmds THEN from[j - 1]
        ELSE one(from[j - 1], j)
      c == from[Len(toks)]
  IN [c EXCEPT !.err = @ \/ Unclosed(q) \/ Len(toks) > DbgTokens \/ c.cmd = ""]

(* _parse: a key takes the token behind it, whatever that is, a number for *)
(* a line; the last of each kind counts.                                   *)
Parse(q) ==
  LET toks == Tokens(q)
      one(c, j) ==
        IF toks[j] \in Cmds THEN [c EXCEPT !.cmd = toks[j]]
        ELSE IF /\ toks[j] \in Keys /\ j < Len(toks)
                /\ toks[j] = "line" => toks[j + 1] \in DbgLines
             THEN [c EXCEPT ![toks[j]] = toks[j + 1]]
        ELSE [c EXCEPT !.err = TRUE]
      taken[j \in 1 .. Len(toks)] == j > 1 /\ toks[j - 1] \in Keys /\ ~taken[j - 1]
      from[j \in 0 .. Len(toks)] ==
        IF j = 0 THEN Unset ELSE IF taken[j] THEN from[j - 1] ELSE one(from[j - 1], j)
      c == from[Len(toks)]
  IN [c EXCEPT !.err = @ \/ Unclosed(q) \/ Len(toks) > DbgTokens \/ c.cmd = ""]

(* The messages that meet the criteria.                                    *)
Matching(c) ==
  {j \in Ids : /\ c.module \in {"", Table(dmods)[j].mod}
               /\ c.place \in {"", Table(dmods)[j].place}
               /\ c.line \in {"", Table(dmods)[j].line}}

(* _process                                                                *)
Process(c) == IF c.cmd = "+p" THEN dact \cup Matching(c) ELSE dact \ Matching(c)

(* What a user means to write: criteria with their values, commands and a  *)
(* comment.  The others are there by mistake.                              *)
Phrases ==
  ({"module"} \X {Libs[m].name : m \in DOMAIN Libs}) \cup ({"place"} \X DbgPlaces)
    \cup ({"line"} \X (DbgLines \cup {"junk"}))
    \cup {<<x>> : x \in Cmds \cup {"#", "quote", "module", "junk"}}

Queries == BoundedSeq(Phrases, MaxPhrases)

(* zus_ddbg_write: what is active after query q.                           *)
Outcome(q) ==
  LET c == Parse(FlattenSeq(q)) IN IF c.err THEN dact ELSE Process(c)

DdbgWrite(q) ==
  /\ Serving
  /\ dact' = Outcome(q)
  /\ UNCHANGED <<dmods, dread>>

DbgNext ==
  \/ AddModule
  \/ \E n \in BufLens : DdbgRead(n)
  \/ DdbgReopen
  \/ \E q \in Queries : DdbgWrite(q)
-----------------------------------------------------------------------------
(***************************************************************************)
(* A reader gets every message once and in order, whatever the sizes of    *)
(* its buffers and the lengths of the lines (printz.c:137).  A line has    *)
(* all its bytes unless it is the one that fills its buffer to the last    *)
(* byte; and the listing is complete when an answer is empty, unless the   *)
(* next line alone is longer than the buffer of that answer, where it      *)
(* stops for good.                                                         *)
(***************************************************************************)
DbgReadsAll ==
  LET t == Table(dmods)
      all == FlattenSeq([p \in DOMAIN dread.got |-> dread.got[p].lines])
      bytes(lines) == FoldLeft(LAMBDA n, x : n + t[x.id].len, 0, lines)
  IN /\ \A j \in DOMAIN all : all[j].id = j
     /\ \A p \in DOMAIN dread.got : \A j \in DOMAIN dread.got[p].lines :
          dread.got[p].lines[j].whole
            <=> bytes(SubSeq(dread.got[p].lines, 1, j)) # dread.got[p].n
     /\ \A n \in dread.end : Len(all) < Len(t) => t[Len(all) + 1].len > n

(***************************************************************************)
(* A query switches the messages that its words describe, the last of each *)
(* kind deciding, up to a comment, and no other; a query with a mistake    *)
(* (an unknown word, a key without a value, a line that is no number, a    *)
(* quote left open), without a command or with too many words switches     *)
(* none (printz.c:246).                                                    *)
(***************************************************************************)
DbgQueryExact ==
  Serving => \A text \in Queries :
    LET note == SelectInSeq(text, LAMBDA x : x = <<"#">>)
        q == IF note = 0 THEN text ELSE SubSeq(text, 1, note - 1)
        given(key) == SelectSeq(q, LAMBDA x : Len(x) = 2 /\ x[1] = key)
        cmds == SelectSeq(q, LAMBDA x : x[1] \in Cmds)
        fits(key, v) == given(key) = <<>> \/ Last(given(key))[2] = v
        good == /\ \A x \in Range(q) : (Len(x) = 2 /\ x # <<"line", "junk">>) \/ x[1] \in Cmds
                /\ cmds # <<>>
                /\ Len(FlattenSeq(q)) <= DbgTokens
        meant == {j \in Ids : /\ fits("module", Table(dmods)[j].mod)
                              /\ fits("place", Table(dmods)[j].place)
                              /\ fits("line", Table(dmods)[j].line)}
    IN Outcome(text) = IF ~good THEN dact
                       ELSE IF Last(cmds)[1] = "+p" THEN dact \cup meant
                       ELSE dact \ meant

(***************************************************************************)
(* The debug messages are listed and switched exactly, but for the lines   *)
(* at the edge of a buffer (zus_ddbg_read, zus_ddbg_write).                *)
(***************************************************************************)
DbgRight == DbgTypeOK /\ DbgReadsAll /\ DbgQueryExact
=============================================================================
