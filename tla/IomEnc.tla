------------------------------- MODULE IomEnc -------------------------------
(***************************************************************************)
(* The io-map encoder (iom_enc.h), the submission of an io-map (md_zus.c)  *)
(* and its completion (_iom_done of zus-vfs.c).  A file system writes a    *)
(* list of elements into a buffer, round after round, and hands it to the  *)
(* kernel, with a command's answer or by an ioctl of its own.              *)
(*                                                                         *)
(* Abstractions.  The first word of an element is its type and value, a    *)
(* further word belongs to the value.  A buffer serves operations or block *)
(* numbers, as in the callers: _ziom_enc_t1_bn looks for room after it has *)
(* written, and only its own result tells that there is none.              *)
(* External: the sizes of the elements, and what the kernel reads.         *)
(***************************************************************************)
EXTENDS Integers, Sequences

CONSTANTS
  IomMax,     \* ziom->iom_max: words of the buffer
  Words,      \* external: Words[k]: the words of an element of type k
  IomVals     \* the values elements carry

ASSUME IomAssumption ==
  /\ IomMax \in Nat \ {0}
  /\ \A k \in DOMAIN Words : Words[k] \in Nat \ {0}
  /\ "bn" \notin DOMAIN Words

VARIABLES
  iomb,     \* the builder: its words w, cur_iom_e, iom_n
  ist,      \* what it is used for: "idle", "ops", "bns" or "sent"
  imore,    \* what _ziom_enc_t1_bn returned
  ilist,    \* the elements that were accepted since the start
  isub      \* the submission: sync, done # NULL, err, and the calls of done

iomVars == <<iomb, ist, imore, ilist, isub>>

NullWord == [k |-> "null", v |-> 0]
Elem(k, v) == [k |-> k, v |-> v]
NewIomb == [w |-> [j \in 1 .. IomMax + 1 |-> NullWord], cur |-> 0, n |-> 0]
NoSub == [sync |-> FALSE, iomd |-> FALSE, err |-> FALSE, done |-> 0]

IomTypeOK ==
  /\ iomb.cur \in 0 .. IomMax + 1 /\ iomb.n \in 0 .. IomMax + 1
  /\ ist \in {"idle", "ops", "bns", "sent"}
  /\ imore \in BOOLEAN
  /\ isub.done \in Nat

(* _zus_iom_start                                                          *)
Start(b) == [b EXCEPT !.cur = 0, !.n = 0, !.w[1] = NullWord]

EndMut(b) == [b EXCEPT !.n = b.cur]

(* _zus_iom_end: the list ends with a null word if there is room for one.  *)
End(b) ==
  [b EXCEPT !.w = IF b.cur < IomMax THEN [@ EXCEPT ![b.cur + 1] = NullWord] ELSE @,
            !.n = b.cur]

FitsMut(b, k) == b.cur < IomMax

(* end_iom_e < next_iom_e: -ENOSPC                                         *)
Fits(b, k) == b.cur + Words[k] <= IomMax

(* The encoders of one element of type k.                                  *)
Enc(b, k, v) ==
  [b EXCEPT !.w = [j \in DOMAIN @ |->
                     IF j = b.cur + 1 THEN Elem(k, v)
                     ELSE IF j \in b.cur + 2 .. b.cur + Words[k] THEN Elem("arg", v)
                     ELSE @[j]],
            !.cur = @ + Words[k]]

(* _ziom_enc_t1_bn                                                         *)
EncBn(b, v) ==
  [b EXCEPT !.w[b.cur + 1] = Elem("bn", v), !.cur = @ + 1, !.n = @ + 1]

(* External: the kernel takes the elements of the first iom_n words.       *)
Decode(b) ==
  LET width(x) == IF x.k \in DOMAIN Words THEN Words[x.k] ELSE 1
      from[j \in 1 .. 2 * IomMax + 1] ==
        IF j > b.n THEN <<>> ELSE <<b.w[j]>> \o from[j + width(b.w[j])]
  IN from[1]
-----------------------------------------------------------------------------
IomInit ==
  /\ iomb = NewIomb
  /\ ist = "idle" /\ imore = TRUE /\ ilist = <<>> /\ isub = NoSub

IomStart ==
  /\ ist = "idle"
  /\ \E use \in {"ops", "bns"}, d \in BOOLEAN :
       /\ ist' = use
       /\ isub' = [NoSub EXCEPT !.iomd = d]
  /\ iomb' = Start(iomb)
  /\ imore' = TRUE /\ ilist' = <<>>

(* An element that does not fit leaves the list as it is.                  *)
IomOp(k, v) ==
  /\ ist = "ops"
  /\ IF Fits(iomb, k)
     THEN iomb' = Enc(iomb, k, v) /\ ilist' = Append(ilist, Elem(k, v))
     ELSE UNCHANGED <<iomb, ilist>>
  /\ UNCHANGED <<ist, imore, isub>>

IomBnMut(v) ==
  /\ ist = "bns" /\ imore
  /\ iomb' = EncBn(iomb, v) /\ ilist' = Append(ilist, Elem("bn", v))
  /\ imore' = (iomb'.cur <= IomMax)
  /\ UNCHANGED <<ist, isub>>

IomBn(v) ==
  /\ ist = "bns" /\ imore
  /\ iomb' = EncBn(iomb, v) /\ ilist' = Append(ilist, Elem("bn", v))
  /\ imore' = (iomb'.cur < IomMax)
  /\ UNCHANGED <<ist, isub>>

(* The list goes out with the answer of a command: block numbers do not    *)
(* need the call of _zus_iom_end.                                          *)
IomAnswer ==
  /\ ist \in {"ops", "bns"}
  /\ \/ iomb' = End(iomb)
     \/ ist = "bns" /\ iomb' = iomb
  /\ ist' = "sent"
  /\ UNCHANGED <<imore, ilist, isub>>

SubmitMut ==
  /\ ist = "ops"
  /\ iomb' = End(iomb)
  /\ \E s, e \in BOOLEAN :
       isub' = [isub EXCEPT !.sync = s, !.err = e, !.done = IF isub.iomd THEN 1 ELSE 0]
  /\ ist' = "sent"
  /\ UNCHANGED <<imore, ilist>>

(* _zus_iom_ioc_exec_submit: the error of the ioctl or of the I/O; done is *)
(* called here when the caller waits.                                      *)
Submit ==
  /\ ist = "ops"
  /\ iomb' = End(iomb)
  /\ \E s, e \in BOOLEAN :
       isub' = [isub EXCEPT !.sync = s, !.err = e, !.done = IF s /\ isub.iomd THEN 1 ELSE 0]
  /\ ist' = "sent"
  /\ UNCHANGED <<imore, ilist>>

(* ZUFS_OP_IOM_DONE, for what was not waited for and has reached the       *)
(* kernel (external).  Without a done function: -EINVAL.                   *)
IomDone ==
  /\ ist = "sent" /\ ~isub.sync /\ ~isub.err
  /\ isub' = [isub EXCEPT !.done = IF isub.iomd THEN @ + 1 ELSE @]
  /\ ist' = "idle"
  /\ UNCHANGED <<iomb, imore, ilist>>

(* Nothing more comes from the kernel.                                     *)
IomReuse ==
  /\ ist = "sent" /\ (isub.sync \/ isub.err)
  /\ ist' = "idle"
  /\ UNCHANGED <<iomb, imore, ilist, isub>>

IomNext ==
  \/ IomStart
  \/ \E k \in DOMAIN Words, v \in IomVals : IomOp(k, v)
  \/ \E v \in IomVals : IomBn(v)
  \/ IomAnswer
  \/ Submit
  \/ IomDone
  \/ IomReuse
-----------------------------------------------------------------------------
(***************************************************************************)
(* No encoder writes past the end of the buffer: neither the ones that     *)
(* look before they write nor _ziom_enc_t1_bn, that looks afterwards       *)
(* (iom_enc.h:226).                                                        *)
(***************************************************************************)
IomInBounds == iomb.cur <= IomMax /\ iomb.w[IomMax + 1] = NullWord

(***************************************************************************)
(* The kernel reads the elements that were accepted in this round, all of  *)
(* them in their order: elements that did not fit and words left from an   *)
(* earlier round are not among them, and a list that does not fill the     *)
(* buffer is followed by a null word (iom_enc.h:109).                      *)
(***************************************************************************)
IomRoundTrip ==
  ist = "sent" => /\ Decode(iomb) = ilist
                  /\ (\A e \in {ilist[j] : j \in DOMAIN ilist} : e.k # "bn")
                       /\ iomb.cur < IomMax
                     => iomb.w[iomb.cur + 1] = NullWord

(***************************************************************************)
(* The done function of an io-map is called once, by the submission that   *)
(* waits or by the completion, and never for both (md_zus.c:412,           *)
(* zus-vfs.c:663).  A submission that did not wait and failed calls none.  *)
(***************************************************************************)
IomDoneOnce ==
  /\ isub.done <= 1
  /\ ist = "idle" /\ isub.iomd => isub.done = 1 \/ (isub.err /\ ~isub.sync)

(***************************************************************************)
(* An io-map reaches the kernel as it was made, out of a buffer that is    *)
(* used again, and is done once (iom_enc.h, _zus_iom_ioc_exec_submit).     *)
(***************************************************************************)
IomSafe == IomTypeOK /\ IomInBounds /\ IomRoundTrip /\ IomDoneOnce
=============================================================================
