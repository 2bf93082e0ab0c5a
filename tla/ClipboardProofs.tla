-------------------------- MODULE ClipboardProofs --------------------------
(***************************************************************************)
(* Clipboard texts come in order, for every number of peers, texts, resets *)
(* and tracked origins and every assignment of permissions.                *)
(***************************************************************************)
EXTENDS Clipboard, TLAPS

Text == [origin : Peers, seq : Nat]

(* The types of the state.                                                 *)
Typed ==
  /\ nextSeq \in [Peers -> Nat]
  /\ mail \in [Peers -> SUBSET Text]
  /\ shown \in [Peers -> [Peers -> Seq(Nat)]]
  /\ remote = [p \in Peers |-> remote[p]]
  /\ \A p \in Peers : \A o \in DOMAIN remote[p] : remote[p][o] \in Nat

(* What is sent, and what was shown, has a number that was given out.      *)
Numbered ==
  /\ \A p \in Peers : \A text \in mail[p] : text.seq < nextSeq[text.origin]
  /\ \A p, o \in Peers : \A i \in 1..Len(shown[p][o]) : shown[p][o][i] < nextSeq[o]

(* A text that was shown is covered by the number its origin is known by,  *)
(* or, after a reset has forgotten that number, is older than every text   *)
(* of that origin that may still come.                                     *)
Covered ==
  \A p, o \in Peers : \A i \in 1..Len(shown[p][o]) :
    \/ o \in DOMAIN remote[p] /\ shown[p][o][i] <= remote[p][o]
    \/ \A text \in mail[p] : text.origin = o => shown[p][o][i] < text.seq

IInv == Typed /\ Numbered /\ Covered /\ TextsComeInOrder

(* Initially nothing is sent, known or shown.                              *)
LEMMA InitIInv == Init => IInv
  BY DEF Init, IInv, Typed, Text, Numbered, Covered, TextsComeInOrder

(* prepare_local_text gives the new text a number above all others.        *)
LEMMA PrepareIInv ==
  ASSUME IInv, NEW p \in Peers, PrepareLocalText(p)
  PROVE  IInv'
  <1> DEFINE text == [origin |-> p, seq |-> nextSeq[p]]
  <1> USE DEF IInv, Text
  <1>1. /\ nextSeq' = [nextSeq EXCEPT ![p] = @ + 1] /\ remote' = remote /\ shown' = shown
        /\ mail' = [q \in Peers |-> IF q = p THEN mail[q] ELSE mail[q] \cup {text}]
    BY DEF PrepareLocalText
  <1>2. text \in Text
    BY DEF Typed
  <1>3. Typed'
    BY <1>1, <1>2 DEF Typed
  <1>4. Numbered'
    <2>1. \A o \in Peers : nextSeq'[o] \in Nat /\ nextSeq[o] \in Nat /\ nextSeq[o] <= nextSeq'[o]
      BY <1>1 DEF Typed
    <2>2. ASSUME NEW q \in Peers, NEW t \in mail'[q] PROVE t.seq < nextSeq'[t.origin]
      <3>1. CASE t \in mail[q]
        <4>1. t \in Text /\ t.seq < nextSeq[t.origin]
          BY <3>1 DEF Typed, Numbered
        <4> QED
          BY <2>1, <4>1
      <3>2. CASE t = text
        BY <1>1, <3>2 DEF Typed
      <3> QED
        BY <1>1, <3>1, <3>2
    <2>3. ASSUME NEW q \in Peers, NEW o \in Peers, NEW i \in 1..Len(shown[q][o])
          PROVE  shown[q][o][i] < nextSeq'[o]
      <3>1. shown[q][o][i] < nextSeq[o] /\ shown[q][o] \in Seq(Nat) /\ shown[q][o][i] \in Nat
        BY DEF Typed, Numbered
      <3> QED
        BY <2>1, <3>1
    <2> QED
      BY <1>1, <2>2, <2>3 DEF Numbered
  <1>5. Covered'
    <2> SUFFICES ASSUME NEW q \in Peers, NEW o \in Peers, NEW i \in 1..Len(shown[q][o]),
                        ~(o \in DOMAIN remote[q] /\ shown[q][o][i] <= remote[q][o]),
                        NEW t \in mail'[q], t.origin = o
                 PROVE  shown[q][o][i] < t.seq
      BY <1>1 DEF Covered
    <2>1. CASE t \in mail[q]
      BY <2>1 DEF Covered
    <2>2. CASE t = text
      BY <2>2 DEF Numbered
    <2> QED
      BY <1>1, <2>1, <2>2
  <1>6. TextsComeInOrder'
    BY <1>1 DEF TextsComeInOrder
  <1> QED
    BY <1>3, <1>4, <1>5, <1>6

(* receive passes a text on only when its number is above every one that   *)
(* was shown.                                                              *)
LEMMA ReceiveIInv ==
  ASSUME IInv, NEW p \in Peers, NEW text \in mail[p], Receive(p, text)
  PROVE  IInv'
  <1> DEFINE o == text.origin
  <1> USE DEF IInv, Text
  <1>1. text \in Text /\ o \in Peers /\ text.seq \in Nat /\ o # p
    BY DEF Typed, Receive
  <1>2. /\ nextSeq' = nextSeq /\ mail' = mail
        /\ shown' = [shown EXCEPT ![p][o] = Append(shown[p][o], text.seq)]
    BY DEF Receive
  <1>3. remote' = [remote EXCEPT ![p] =
          [a \in DOMAIN remote[p] \cup {o} |-> IF a = o THEN text.seq ELSE remote[p][a]]]
    BY DEF Receive
  <1>4. ASSUME NEW i \in 1..Len(shown[p][o]) PROVE shown[p][o][i] < text.seq
    <2>1. shown[p][o] \in Seq(Nat) /\ shown[p][o][i] \in Nat
      BY <1>1 DEF Typed
    <2>2. CASE o \in DOMAIN remote[p] /\ shown[p][o][i] <= remote[p][o]
      <3>1. remote[p][o] \in Nat
        BY <2>2 DEF Typed
      <3> QED
        BY <1>1, <2>1, <2>2, <3>1 DEF Receive, Known
    <2>3. CASE \A t \in mail[p] : t.origin = o => shown[p][o][i] < t.seq
      BY <2>3
    <2> QED
      BY <1>1, <2>2, <2>3 DEF Covered
  <1>5. \A q, a \in Peers : shown'[q][a] = IF q = p /\ a = o THEN Append(shown[p][o], text.seq)
                                           ELSE shown[q][a]
    BY <1>1, <1>2 DEF Typed
  <1>6. /\ remote'[p] = [a \in DOMAIN remote[p] \cup {o} |-> IF a = o THEN text.seq ELSE remote[p][a]]
        /\ \A q \in Peers \ {p} : remote'[q] = remote[q]
    BY <1>3 DEF Typed
  <1>7. Typed'
    <2>1. shown' \in [Peers -> [Peers -> Seq(Nat)]]
      BY <1>1, <1>2 DEF Typed
    <2>2. remote' = [q \in Peers |-> remote'[q]]
      BY <1>3 DEF Typed
    <2>3. ASSUME NEW q \in Peers, NEW a \in DOMAIN remote'[q] PROVE remote'[q][a] \in Nat
      <3>1. CASE q = p
        <4>1. a \in DOMAIN remote[p] \cup {o} /\ remote'[p][a] = IF a = o THEN text.seq ELSE remote[p][a]
          BY <1>6, <3>1
        <4> QED
          BY <1>1, <3>1, <4>1 DEF Typed
      <3>2. CASE q # p
        BY <1>6, <3>2 DEF Typed
      <3> QED
        BY <3>1, <3>2
    <2> QED
      BY <1>2, <2>1, <2>2, <2>3 DEF Typed
  <1>8. ASSUME NEW q \in Peers, NEW a \in Peers, NEW i \in 1..Len(shown'[q][a])
        PROVE  \/ q = p /\ a = o /\ i = Len(shown[p][o]) + 1 /\ shown'[q][a][i] = text.seq
               \/ i \in 1..Len(shown[q][a]) /\ shown'[q][a][i] = shown[q][a][i]
    <2>1. shown[p][o] \in Seq(Nat)
      BY <1>1 DEF Typed
    <2>2. CASE q = p /\ a = o
      <3>1. shown'[q][a] = Append(shown[p][o], text.seq)
        BY <1>5, <2>2
      <3>2. i \in 1..Len(shown[p][o]) + 1
        BY <1>1, <2>1, <3>1
      <3>3. CASE i = Len(shown[p][o]) + 1
        BY <1>1, <2>1, <2>2, <3>1, <3>3
      <3>4. CASE i \in 1..Len(shown[p][o])
        BY <1>1, <2>1, <2>2, <3>1, <3>4
      <3>5. Len(shown[p][o]) \in Nat
        BY <2>1
      <3>6. i = Len(shown[p][o]) + 1 \/ i \in 1..Len(shown[p][o])
        BY <3>2, <3>5
      <3> QED
        BY <3>3, <3>4, <3>6
    <2>3. CASE ~(q = p /\ a = o)
      BY <1>5, <2>3
    <2> QED
      BY <2>2, <2>3
  <1>9. Numbered'
    <2>1. ASSUME NEW q \in Peers, NEW a \in Peers, NEW i \in 1..Len(shown'[q][a])
          PROVE  shown'[q][a][i] < nextSeq[a]
      <3>1. CASE a = o /\ shown'[q][a][i] = text.seq
        BY <1>1, <3>1 DEF Numbered
      <3>2. CASE i \in 1..Len(shown[q][a]) /\ shown'[q][a][i] = shown[q][a][i]
        BY <3>2 DEF Numbered
      <3> QED
        BY <1>8, <3>1, <3>2
    <2> QED
      BY <1>2, <2>1 DEF Numbered
  <1>10. Covered'
    <2> SUFFICES ASSUME NEW q \in Peers, NEW a \in Peers, NEW i \in 1..Len(shown'[q][a])
                 PROVE  \/ a \in DOMAIN remote'[q] /\ shown'[q][a][i] <= remote'[q][a]
                        \/ \A t \in mail[q] : t.origin = a => shown'[q][a][i] < t.seq
      BY <1>2 DEF Covered
    <2>1. CASE q = p /\ a = o
      <3>1. a \in DOMAIN remote'[q] /\ remote'[q][a] = text.seq
        BY <1>6, <2>1
      <3>2. CASE shown'[q][a][i] = text.seq
        BY <1>1, <3>1, <3>2
      <3>3. CASE i \in 1..Len(shown[q][a]) /\ shown'[q][a][i] = shown[q][a][i]
        <4>1. shown[q][a] \in Seq(Nat)
          BY DEF Typed
        <4>2. shown[q][a][i] \in Nat
          BY <3>3, <4>1
        <4> QED
          BY <1>1, <1>4, <2>1, <3>1, <3>3, <4>2
      <3> QED
        BY <1>8, <3>2, <3>3
    <2>2. CASE ~(q = p /\ a = o)
      <3>1. i \in 1..Len(shown[q][a]) /\ shown'[q][a][i] = shown[q][a][i]
        BY <1>5, <2>2
      <3>2. a \in DOMAIN remote[q] => a \in DOMAIN remote'[q] /\ remote'[q][a] = remote[q][a]
        BY <1>6, <2>2
      <3> QED
        BY <3>1, <3>2 DEF Covered
    <2> QED
      BY <2>1, <2>2
  <1>11. TextsComeInOrder'
    <2>1. \A q \in Peers : shown'[q][q] = <<>>
      BY <1>1, <1>5 DEF TextsComeInOrder
    <2>2. ASSUME NEW q \in Peers, NEW a \in Peers,
                 NEW i \in 1..Len(shown'[q][a]), NEW j \in 1..Len(shown'[q][a]), i < j
          PROVE  shown'[q][a][i] < shown'[q][a][j]
      <3>1. i \in 1..Len(shown[q][a]) /\ shown'[q][a][i] = shown[q][a][i]
        <4>1. CASE q = p /\ a = o
          <5>1. shown[p][o] \in Seq(Nat)
            BY <1>1 DEF Typed
          <5>2. shown'[q][a] = Append(shown[p][o], text.seq)
            BY <1>1, <1>5, <4>1
          <5>3. Len(shown'[q][a]) = Len(shown[p][o]) + 1
            BY <1>1, <5>1, <5>2
          <5>4. i \in 1..Len(shown[p][o])
            BY <2>2, <5>1, <5>3
          <5> QED
            BY <1>1, <4>1, <5>1, <5>2, <5>4
        <4>2. CASE ~(q = p /\ a = o)
          BY <1>5, <4>2
        <4> QED
          BY <4>1, <4>2
      <3>2. CASE q = p /\ a = o /\ shown'[q][a][j] = text.seq
        BY <1>4, <3>1, <3>2
      <3>3. CASE j \in 1..Len(shown[q][a]) /\ shown'[q][a][j] = shown[q][a][j]
        BY <2>2, <3>1, <3>3 DEF TextsComeInOrder
      <3> QED
        BY <1>8, <3>2, <3>3
    <2> QED
      BY <2>1, <2>2 DEF TextsComeInOrder
  <1> QED
    BY <1>7, <1>9, <1>10, <1>11

(* reset_remote_state forgets the numbers with everything on its way.      *)
LEMMA ResetIInv ==
  ASSUME IInv, NEW p \in Peers, ResetRemoteState(p)
  PROVE  IInv'
  <1> USE DEF IInv
  <1>1. /\ remote' = [remote EXCEPT ![p] = <<>>] /\ mail' = [mail EXCEPT ![p] = {}]
        /\ nextSeq' = nextSeq /\ shown' = shown
    BY DEF ResetRemoteState
  <1>2. mail'[p] = {} /\ \A q \in Peers \ {p} : mail'[q] = mail[q] /\ remote'[q] = remote[q]
    BY <1>1 DEF Typed
  <1>3. remote'[p] = <<>> /\ remote' = [q \in Peers |-> remote'[q]]
    BY <1>1 DEF Typed
  <1>4. Typed'
    BY <1>1, <1>2, <1>3 DEF Typed
  <1>5. Numbered'
    BY <1>1, <1>2 DEF Numbered
  <1>6. Covered'
    BY <1>1, <1>2 DEF Covered
  <1>7. TextsComeInOrder'
    BY <1>1 DEF TextsComeInOrder
  <1> QED
    BY <1>4, <1>5, <1>6, <1>7

(* The system clipboard of a peer is given the texts of another in the     *)
(* order of their copying, each at most once, over any number of sessions, *)
(* whatever receive is given late or again.                                *)
THEOREM ClipboardInOrder == Spec => []TextsComeInOrder
  <1>1. IInv /\ [Next]_vars => IInv'
    <2> SUFFICES ASSUME IInv, [Next]_vars PROVE IInv'
      OBVIOUS
    <2>1. CASE UNCHANGED vars
      BY <2>1 DEF vars, IInv, Typed, Numbered, Covered, TextsComeInOrder
    <2>2. CASE Next
      BY <2>2, PrepareIInv, ReceiveIInv, ResetIInv DEF Next
    <2> QED
      BY <2>1, <2>2
  <1>2. IInv => TextsComeInOrder
    BY DEF IInv
  <1> QED
    BY InitIInv, <1>1, <1>2, PTL DEF Spec
=============================================================================
