-------------------------- MODULE SendFrameProofs --------------------------
(***************************************************************************)
(* Theorems about SendFrame: the bytes of any frames go out in order, and  *)
(* send_frame implements FrameLine.  The argument: as long as no call has  *)
(* failed, the wire ends exactly where the locals of send_all are; after a *)
(* failure nothing can be sent, because the connection is gone.            *)
(***************************************************************************)
EXTENDS SendFrame, SequenceTheorems, TLAPS

TypeOK ==
  /\ cur \in 1..Len(Frames)+1
  /\ part \in {"idle", "header", "payload"}
  /\ sent \in Nat
  /\ wire \in Seq(Nat \X Nat)
  /\ read \in 0..Len(wire)
  /\ up \in BOOLEAN /\ gone \in BOOLEAN
  /\ result \in Seq(BOOLEAN)

(* The call being made. *)
InCall ==
  /\ Len(result) = cur - 1
  /\ part = "idle" => sent = 0
  /\ part # "idle" => cur <= Len(Frames) /\ sent <= PartLen

(* After a failure the connection is gone, and no call gets anywhere. *)
NoneAfter == Failed => ~up /\ sent = 0 /\ part # "payload"

(* The wire ends at the place of send_all. *)
AtPlace ==
  IF Place > 0 THEN wire # <<>> /\ wire[Len(wire)] = <<cur, Place>>
  ELSE IF cur = 1 THEN wire = <<>>
  ELSE wire # <<>> /\ wire[Len(wire)] = <<cur - 1, Size(cur - 1)>>

(* Nothing was sent of what comes later. *)
NotAhead ==
  \A m \in 1..Len(wire) :
     wire[m][1] < cur \/ (wire[m][1] = cur /\ wire[m][2] <= Place)

IInv ==
  /\ TypeOK /\ InCall /\ NoneAfter
  /\ ~Failed => AtPlace
  /\ NotAhead /\ BytesRight

LEMMA SizeType ==
  ASSUME NEW k \in 1..Len(Frames)
  PROVE  /\ Frames[k].len \in Nat /\ Frames[k].ignored \in BOOLEAN
         /\ Size(k) \in Nat /\ Size(k) > 0
<1>1. Frames[k] \in [len : Nat, ignored : BOOLEAN] BY SendAssumption, ElementOfSeq
<1>2. HDR \in Nat \ {0} BY SendAssumption
<1> QED BY <1>1, <1>2 DEF Size

LEMMA InitInv == Init => IInv
<1> SUFFICES ASSUME Init PROVE IInv
  OBVIOUS
<1>0. Len(Frames) \in Nat BY SendAssumption
<1>1. TypeOK
  <2>1. wire \in Seq(Nat \X Nat) /\ result \in Seq(BOOLEAN) /\ Len(wire) = 0 BY DEF Init
  <2>2. up \in BOOLEAN /\ gone \in BOOLEAN BY DEF Init
  <2>3. cur \in 1..Len(Frames)+1 /\ read \in 0..Len(wire) /\ sent \in Nat BY <1>0, <2>1 DEF Init
  <2>4. part \in {"idle", "header", "payload"} BY DEF Init
  <2> QED BY <2>1, <2>2, <2>3, <2>4 DEF TypeOK
<1>2. InCall BY DEF Init, InCall
<1>3. ~Failed /\ NoneAfter BY DEF Init, Failed, NoneAfter
<1>4. AtPlace /\ NotAhead BY DEF Init, AtPlace, NotAhead, Place
<1>5. BytesRight BY DEF Init, BytesRight
<1> QED BY <1>1, <1>2, <1>3, <1>4, <1>5 DEF IInv

-----------------------------------------------------------------------------
(* Where send_all is in the frame.                                         *)
LEMMA PlaceType ==
  ASSUME IInv, part # "idle"
  PROVE  /\ cur \in 1..Len(Frames) /\ PartLen \in Nat
         /\ Place \in Nat /\ Place <= Size(cur)
         /\ sent < PartLen => Place < Size(cur)
         /\ PartLen - sent <= Size(cur) - Place
<1>1. cur \in 1..Len(Frames) BY SendAssumption DEF IInv, TypeOK, InCall
<1>2. Frames[cur].len \in Nat BY <1>1, SizeType
<1>3. HDR \in Nat \ {0} BY SendAssumption
<1>4. sent \in Nat /\ sent <= PartLen /\ part \in {"header", "payload"} BY DEF IInv, TypeOK, InCall
<1>5. CASE part = "payload" BY <1>1, <1>2, <1>3, <1>4, <1>5 DEF PartLen, Place, Size
<1>6. CASE part = "header" BY <1>1, <1>2, <1>3, <1>4, <1>6 DEF PartLen, Place, Size
<1> QED BY <1>4, <1>5, <1>6

LEMMA StepBegin == IInv /\ Begin => IInv'
<1> SUFFICES ASSUME IInv, Begin PROVE IInv'
  OBVIOUS
<1>1. Place = 0 /\ Place' = 0 BY DEF IInv, InCall, Begin, Place
<1>2. TypeOK' BY DEF IInv, TypeOK, Begin
<1>3. InCall' BY SendAssumption DEF IInv, TypeOK, InCall, Begin, PartLen
<1>4. NoneAfter' /\ (Failed' <=> Failed) BY DEF IInv, NoneAfter, Failed, Begin
<1>5. (~Failed => AtPlace)' BY <1>1, <1>4 DEF IInv, AtPlace, Begin, Size
<1>6. NotAhead' BY <1>1 DEF IInv, NotAhead, Begin
<1>7. BytesRight' BY DEF IInv, BytesRight, Begin, After, Size
<1> QED BY <1>2, <1>3, <1>4, <1>5, <1>6, <1>7 DEF IInv

LEMMA StepPayload == IInv /\ Payload => IInv'
<1> SUFFICES ASSUME IInv, Payload PROVE IInv'
  OBVIOUS
<1>0. cur \in 1..Len(Frames) /\ Frames[cur].len \in Nat BY PlaceType, SizeType DEF Payload
<1>1. Place = HDR /\ Place' = HDR BY SendAssumption DEF IInv, InCall, Payload, Place
<1>2. TypeOK' BY DEF IInv, TypeOK, Payload
<1>3. InCall' BY <1>0, SendAssumption DEF IInv, TypeOK, InCall, Payload, PartLen
<1>4. NoneAfter' /\ (Failed' <=> Failed)
  BY SendAssumption DEF IInv, NoneAfter, Failed, Payload
<1>5. (~Failed => AtPlace)' BY <1>1, <1>4 DEF IInv, AtPlace, Payload, Size
<1>6. NotAhead' BY <1>1 DEF IInv, NotAhead, Payload
<1>7. BytesRight' BY DEF IInv, BytesRight, Payload, After, Size
<1> QED BY <1>2, <1>3, <1>4, <1>5, <1>6, <1>7 DEF IInv

LEMMA StepPeer == IInv /\ (PeerReads \/ PeerGoes) => IInv'
<1> SUFFICES ASSUME IInv, PeerReads \/ PeerGoes PROVE IInv'
  OBVIOUS
<1>0. /\ UNCHANGED <<cur, part, sent, wire, result, gone>>
      /\ read' \in 0..Len(wire) /\ up' \in BOOLEAN /\ (up' => up)
  <2>1. Len(wire) \in Nat /\ up \in BOOLEAN /\ read \in 0..Len(wire) BY DEF IInv, TypeOK
  <2>2. CASE PeerReads BY <2>1, <2>2 DEF PeerReads
  <2>3. CASE PeerGoes BY <2>1, <2>3 DEF PeerGoes
  <2> QED BY <2>2, <2>3
<1>1. Place' = Place /\ PartLen' = PartLen BY <1>0 DEF Place, PartLen
<1>2. TypeOK' BY <1>0 DEF IInv, TypeOK
<1>3. InCall' BY <1>0, <1>1 DEF IInv, InCall
<1>4. NoneAfter' /\ (Failed' <=> Failed) BY <1>0 DEF IInv, NoneAfter, Failed
<1>5. (~Failed => AtPlace)' BY <1>0, <1>1, <1>4 DEF IInv, AtPlace, Size
<1>6. NotAhead' BY <1>0, <1>1 DEF IInv, NotAhead
<1>7. BytesRight' BY <1>0 DEF IInv, BytesRight, After, Size
<1> QED BY <1>2, <1>3, <1>4, <1>5, <1>6, <1>7 DEF IInv

(* What Send(n) puts on the wire. *)
LEMMA SendWire ==
  ASSUME IInv, NEW n \in 1..SNDBUF, Send(n)
  PROVE  /\ wire' \in Seq(Nat \X Nat) /\ Len(wire') = Len(wire) + n
         /\ \A m \in 1..Len(wire) : wire'[m] = wire[m]
         /\ \A m \in 1..n : wire'[Len(wire) + m] = <<cur, Place + m>>
         /\ Place' = Place + n /\ Place + n <= Size(cur)
         /\ ~Failed
<1>0. SNDBUF \in Nat /\ n \in Nat BY SendAssumption
<1>1. /\ cur \in 1..Len(Frames) /\ Place \in Nat /\ PartLen \in Nat /\ sent \in Nat
      /\ PartLen - sent <= Size(cur) - Place /\ Size(cur) \in Nat
  BY PlaceType, SizeType DEF Send, IInv, TypeOK
<1>2. Bytes(n) \in Seq(Nat \X Nat) /\ Len(Bytes(n)) = n BY <1>0, <1>1 DEF Bytes
<1>3. \A m \in 1..n : Bytes(n)[m] = <<cur, Place + m>> BY DEF Bytes
<1>4. wire' = wire \o Bytes(n) BY DEF Send
<1>5. Place' = Place + n
  BY <1>0, <1>1, SendAssumption DEF Place, Send, Advanced
<1>6. ~Failed BY DEF Send, IInv, NoneAfter
<1>7. wire \in Seq(Nat \X Nat) BY DEF IInv, TypeOK
<1>8. n <= PartLen - sent BY DEF Send
<1>9. Place + n <= Size(cur)
  <2> HIDE DEF Place, Size, PartLen
  <2> QED BY <1>0, <1>1, <1>8
<1>10. /\ wire' \in Seq(Nat \X Nat) /\ Len(wire') = Len(wire) + n
       /\ \A m \in 1..Len(wire) : wire'[m] = wire[m]
       /\ \A m \in 1..n : wire'[Len(wire) + m] = Bytes(n)[m]
  <2>1. /\ wire \o Bytes(n) \in Seq(Nat \X Nat) /\ Len(wire \o Bytes(n)) = Len(wire) + Len(Bytes(n))
        /\ \A m \in 1..Len(wire) : (wire \o Bytes(n))[m] = wire[m]
        /\ \A m \in 1..Len(Bytes(n)) : (wire \o Bytes(n))[Len(wire) + m] = Bytes(n)[m]
    BY <1>2, <1>7, ConcatProperties
  <2> QED BY <2>1, <1>2, <1>4
<1> QED BY <1>3, <1>5, <1>6, <1>9, <1>10

LEMMA StepSend == ASSUME IInv, NEW n \in 1..SNDBUF, Send(n) PROVE IInv'
<1>0. SNDBUF \in Nat /\ n \in Nat \ {0} BY SendAssumption
<1>1. /\ cur \in 1..Len(Frames) /\ Place \in Nat /\ PartLen \in Nat /\ sent \in Nat
      /\ Size(cur) \in Nat
  BY PlaceType, SizeType DEF Send, IInv, TypeOK
<1>2. UNCHANGED <<cur, part, read, up, result, gone>> /\ n <= PartLen - sent /\ sent' = sent + n
  BY DEF Send, Advanced
<1>3. wire \in Seq(Nat \X Nat) /\ Len(wire) \in Nat BY DEF IInv, TypeOK
<1>4. part # "idle" BY DEF Send
<1>5. TypeOK' BY <1>0, <1>1, <1>2, <1>3, SendWire DEF IInv, TypeOK
<1>6. InCall'
  BY <1>0, <1>1, <1>2, <1>4 DEF IInv, InCall, PartLen
<1>7. ~Failed' BY <1>2, SendWire DEF Failed
<1>8. AtPlace'
  <2>1. Place' > 0 /\ Place' = Place + n BY <1>0, <1>1, SendWire
  <2>2. n \in 1..n /\ Len(wire') = Len(wire) + n BY <1>0, SendWire
  <2>3. wire'[Len(wire')] = <<cur, Place + n>> /\ Len(wire') > 0 BY <2>2, <1>0, <1>3, SendWire
  <2> QED BY <2>1, <2>2, <2>3, <1>2, <1>3, SendWire DEF AtPlace
<1>9. NotAhead'
  <2> SUFFICES ASSUME NEW m \in 1..Len(wire')
               PROVE  wire'[m][1] < cur \/ (wire'[m][1] = cur /\ wire'[m][2] <= Place + n)
    BY <1>2, SendWire DEF NotAhead
  <2>1. CASE m \in 1..Len(wire)
    <3>1. wire'[m] = wire[m] /\ wire[m] \in Nat \X Nat BY <2>1, <1>3, SendWire
    <3> QED BY <2>1, <3>1, <1>0, <1>1 DEF IInv, NotAhead
  <2>2. CASE m \notin 1..Len(wire)
    <3>1. m - Len(wire) \in 1..n /\ m = Len(wire) + (m - Len(wire)) BY <2>2, <1>0, <1>3, SendWire, SMTT(30)
    <3>2. wire'[m] = <<cur, Place + (m - Len(wire))>> BY <3>1, SendWire
    <3> QED BY <3>1, <3>2, <1>0, <1>1, <1>3
  <2> QED BY <2>1, <2>2
<1>10. BytesRight'
  <2>1. wire'[1] = <<1, 1>>
    <3>1. CASE wire = <<>>
      <4>1. cur = 1 /\ Place = 0
        BY <3>1, <1>1, SendWire DEF IInv, AtPlace
      <4> QED BY <4>1, <3>1, <1>0, SendWire
    <3>2. CASE wire # <<>>
      <4>1. 1 \in 1..Len(wire) BY <3>2, <1>3
      <4> QED BY <4>1, <3>2, SendWire DEF IInv, BytesRight
    <3> QED BY <3>1, <3>2
  <2>2. ASSUME NEW m \in 1..Len(wire')-1 PROVE wire'[m + 1] = After(wire'[m])
    <3>1. CASE m < Len(wire)
      <4>1. m \in 1..Len(wire)-1 /\ m \in 1..Len(wire) /\ m + 1 \in 1..Len(wire) BY <3>1, <1>3, SMTT(30)
      <4>2. wire[m + 1] = After(wire[m]) BY <4>1 DEF IInv, BytesRight
      <4> QED BY <4>1, <4>2, SendWire
    <3>2. CASE m = Len(wire)
      <4>0. m \in 1..Len(wire) BY <3>2
      <4>1. wire'[m] = wire[m] /\ wire # <<>> BY <4>0, <1>3, SendWire
      <4>2. wire'[m + 1] = <<cur, Place + 1>> BY <3>2, <1>0, SendWire, SMTT(30)
      <4>3. AtPlace /\ Place + 1 <= Size(cur) BY <1>0, <1>1, SendWire DEF IInv
      <4>4. CASE Place > 0
        <5>1. wire[m] = <<cur, Place>> BY <4>3, <4>4, <3>2 DEF AtPlace
        <5> QED BY <5>1, <4>1, <4>2, <4>3, <1>1 DEF After
      <4>5. CASE Place = 0
        <5>1. cur # 1 /\ wire[m] = <<cur - 1, Size(cur - 1)>>
          BY <4>1, <4>3, <4>5, <3>2 DEF AtPlace
        <5>2. cur - 1 \in 1..Len(Frames) BY <5>1, <1>1, SendAssumption
        <5>3. Size(cur - 1) \in Nat BY <5>2, SizeType
        <5> QED BY <5>1, <5>3, <4>1, <4>2, <4>5, <1>1 DEF After
      <4> QED BY <4>4, <4>5, <1>1
    <3>3. CASE m > Len(wire)
      <4> DEFINE d == m - Len(wire)
      <4>0. Len(wire') = Len(wire) + n BY SendWire
      <4>1. d \in 1..n /\ d + 1 \in 1..n /\ m = Len(wire) + d BY <4>0, <3>3, <1>0, <1>3
      <4>2. wire'[m] = <<cur, Place + d>> BY <4>1, SendWire
      <4>3. wire'[Len(wire) + (d + 1)] = <<cur, Place + (d + 1)>> BY <4>1, SendWire
      <4>4. Place + d < Size(cur) BY <4>1, <1>0, <1>1, SendWire
      <4> HIDE DEF d
      <4> QED BY <4>1, <4>2, <4>3, <4>4, <1>0, <1>1, <1>3 DEF After
    <3> QED BY <3>1, <3>2, <3>3, <1>3
  <2>3. ASSUME NEW k \in 1..Len(result)
        PROVE  result[k] <=> \E m \in 1..Len(wire') : wire'[m] = <<k, Size(k)>>
    <3>1. k < cur BY <1>1 DEF IInv, InCall, TypeOK
    <3>2. \A m \in 1..Len(wire') : wire'[m] = <<k, Size(k)>> => m \in 1..Len(wire)
      <4> SUFFICES ASSUME NEW m \in 1..Len(wire'), wire'[m] = <<k, Size(k)>>, m \notin 1..Len(wire)
                   PROVE  FALSE
        OBVIOUS
      <4>0. Len(wire') = Len(wire) + n BY SendWire
      <4>1. m - Len(wire) \in 1..n /\ m = Len(wire) + (m - Len(wire)) BY <4>0, <1>0, <1>3
      <4>2. wire'[m] = <<cur, Place + (m - Len(wire))>> BY <4>1, SendWire
      <4> QED BY <4>2, <3>1, <1>1
    <3>3. result[k] <=> \E m \in 1..Len(wire) : wire[m] = <<k, Size(k)>>
      BY DEF IInv, BytesRight
    <3>4. 1..Len(wire) \subseteq 1..Len(wire') BY <1>0, <1>3, SendWire
    <3> QED BY <3>2, <3>3, <3>4, SendWire
  <2> QED BY <2>1, <2>2, <2>3, <1>2 DEF BytesRight, After, Size
<1> QED BY <1>5, <1>6, <1>7, <1>8, <1>9, <1>10 DEF IInv, NoneAfter

-----------------------------------------------------------------------------
(* The end of a call, with or without success.                             *)
LEMMA StepDone == IInv /\ Done => IInv'
<1> SUFFICES ASSUME IInv, Done PROVE IInv'
  OBVIOUS
<1>1. /\ cur \in 1..Len(Frames) /\ Frames[cur].len \in Nat
      /\ Size(cur) \in Nat /\ Size(cur) > 0
  BY PlaceType, SizeType DEF Done
<1>2. Place = Size(cur)
  BY <1>1, SendAssumption DEF Done, Place, PartLen, Size
<1>3. ~Failed
  BY <1>1, SendAssumption DEF Done, PartLen, IInv, NoneAfter
<1>4. /\ result' = Append(result, TRUE) /\ cur' = cur + 1 /\ part' = "idle" /\ sent' = 0
      /\ UNCHANGED <<wire, read, up>> /\ gone' \in BOOLEAN
  BY DEF Done, Return
<1>5. result \in Seq(BOOLEAN) /\ Len(result) = cur - 1 BY DEF IInv, TypeOK, InCall
<1>6. wire # <<>> /\ wire[Len(wire)] = <<cur, Size(cur)>> /\ wire \in Seq(Nat \X Nat)
  BY <1>1, <1>2, <1>3 DEF IInv, AtPlace, TypeOK
<1>7. TypeOK' BY <1>1, <1>4, SendAssumption DEF IInv, TypeOK
<1>8. InCall' BY <1>1, <1>4, <1>5 DEF InCall
<1>9. ~Failed' BY <1>3, <1>4, <1>5 DEF Failed
<1>10. Place' = 0 BY <1>4 DEF Place
<1>11. AtPlace' BY <1>1, <1>4, <1>6, <1>10 DEF AtPlace, Size
<1>12. NotAhead'
  <2> SUFFICES ASSUME NEW m \in 1..Len(wire) PROVE wire[m][1] < cur + 1
    BY <1>4 DEF NotAhead
  <2>1. wire[m] \in Nat \X Nat BY <1>6
  <2> QED BY <2>1, <1>1 DEF IInv, NotAhead
<1>13. BytesRight'
  <2>1. ASSUME NEW k \in 1..Len(result')
        PROVE  result'[k] <=> \E m \in 1..Len(wire) : wire[m] = <<k, Size(k)>>
    <3>1. CASE k = cur
      <4>1. result'[k] = TRUE BY <3>1, <1>4, <1>5
      <4>2. Len(wire) \in 1..Len(wire) BY <1>6
      <4> QED BY <4>1, <4>2, <1>6, <3>1
    <3>2. CASE k # cur
      <4>0. Len(result') = Len(result) + 1 BY <1>4, <1>5
      <4>1. k \in 1..Len(result) BY <4>0, <3>2, <1>1, <1>5
      <4>2. \A n \in 1..Len(result) : Append(result, TRUE)[n] = result[n]
        <5>1. TRUE \in BOOLEAN OBVIOUS
        <5> QED BY <5>1, <1>5, AppendProperties, ZenonT(60)
      <4>3. result'[k] = result[k] BY <4>1, <4>2, <1>4, Zenon
      <4> QED BY <4>1, <4>3 DEF IInv, BytesRight
    <3> QED BY <3>1, <3>2
  <2> QED BY <2>1, <1>4 DEF IInv, BytesRight, After, Size
<1> QED BY <1>7, <1>8, <1>9, <1>11, <1>12, <1>13 DEF IInv, NoneAfter

LEMMA StepSendFails == IInv /\ SendFails => IInv'
<1> SUFFICES ASSUME IInv, SendFails PROVE IInv'
  OBVIOUS
<1>1. /\ cur \in 1..Len(Frames) /\ Place \in Nat /\ Place < Size(cur)
      /\ Size(cur) \in Nat /\ Frames[cur].ignored \in BOOLEAN
  BY PlaceType, SizeType DEF SendFails
<1>2. /\ result' = Append(result, FALSE) /\ cur' = cur + 1 /\ part' = "idle" /\ sent' = 0
      /\ UNCHANGED <<wire, read, up>> /\ gone' \in BOOLEAN /\ ~up
  BY <1>1 DEF SendFails, Return
<1>3. result \in Seq(BOOLEAN) /\ Len(result) = cur - 1 BY DEF IInv, TypeOK, InCall
<1>4. wire \in Seq(Nat \X Nat) BY DEF IInv, TypeOK
<1>5. TypeOK' BY <1>1, <1>2, SendAssumption DEF IInv, TypeOK
<1>6. InCall' BY <1>1, <1>2, <1>3 DEF InCall
<1>7. Failed'
  <2>1. cur \in 1..Len(result') /\ result'[cur] = FALSE BY <1>1, <1>2, <1>3
  <2> QED BY <2>1 DEF Failed
<1>8. NoneAfter' BY <1>2 DEF NoneAfter
<1>9. NotAhead'
  <2> SUFFICES ASSUME NEW m \in 1..Len(wire) PROVE wire[m][1] < cur + 1
    BY <1>2 DEF NotAhead
  <2>1. wire[m] \in Nat \X Nat BY <1>4
  <2> QED BY <2>1, <1>1 DEF IInv, NotAhead
<1>10. BytesRight'
  <2>1. ASSUME NEW k \in 1..Len(result')
        PROVE  result'[k] <=> \E m \in 1..Len(wire) : wire[m] = <<k, Size(k)>>
    <3>1. CASE k = cur
      <4>1. result'[k] = FALSE BY <3>1, <1>2, <1>3
      <4>2. \A m \in 1..Len(wire) : wire[m] # <<cur, Size(cur)>>
        <5> SUFFICES ASSUME NEW m \in 1..Len(wire), wire[m] = <<cur, Size(cur)>> PROVE FALSE
          OBVIOUS
        <5>1. wire[m][1] = cur /\ wire[m][2] = Size(cur) OBVIOUS
        <5> QED BY <5>1, <1>1 DEF IInv, NotAhead
      <4> QED BY <4>1, <4>2, <3>1
    <3>2. CASE k # cur
      <4>0. Len(result') = Len(result) + 1 BY <1>2, <1>3
      <4>1. k \in 1..Len(result) BY <4>0, <3>2, <1>1, <1>3
      <4>2. \A n \in 1..Len(result) : Append(result, FALSE)[n] = result[n]
        <5>1. FALSE \in BOOLEAN OBVIOUS
        <5> QED BY <5>1, <1>3, AppendProperties, ZenonT(60)
      <4>3. result'[k] = result[k] BY <4>1, <4>2, <1>2, Zenon
      <4> QED BY <4>1, <4>3 DEF IInv, BytesRight
    <3> QED BY <3>1, <3>2
  <2> QED BY <2>1, <1>2 DEF IInv, BytesRight, After, Size
<1> QED BY <1>5, <1>6, <1>7, <1>8, <1>9, <1>10 DEF IInv

LEMMA StepInv == IInv /\ [Next]_vars => IInv'
<1> SUFFICES ASSUME IInv, [Next]_vars PROVE IInv'
  OBVIOUS
<1>1. CASE Begin BY <1>1, StepBegin
<1>2. ASSUME NEW n \in 1..SNDBUF, Send(n) PROVE IInv' BY <1>2, StepSend
<1>3. CASE SendFails BY <1>3, StepSendFails
<1>4. CASE Payload BY <1>4, StepPayload
<1>5. CASE Done BY <1>5, StepDone
<1>6. CASE PeerReads \/ PeerGoes BY <1>6, StepPeer
<1>7. CASE UNCHANGED vars
  BY <1>7 DEF vars, IInv, TypeOK, InCall, NoneAfter, Failed, AtPlace, NotAhead, BytesRight,
              Place, PartLen, Size, After
<1> QED BY <1>1, <1>2, <1>3, <1>4, <1>5, <1>6, <1>7 DEF Next, send_frame

-----------------------------------------------------------------------------
LEMMA Invariant == Spec => []IInv
BY InitInv, StepInv, PTL DEF Spec

(* The bytes of any frames, through socket buffers of any size, go out in  *)
(* their order and without a gap, and send_frame reports the truth.        *)
THEOREM BytesInOrder == Spec => []BytesRight
<1>1. IInv => BytesRight BY DEF IInv
<1> QED BY Invariant, <1>1, PTL

-----------------------------------------------------------------------------
LEMMA WholeBehind ==
  ASSUME IInv, part # "idle", sent < PartLen, ~Failed
  PROVE  Whole = cur - 1
<1>1. /\ cur \in 1..Len(Frames) /\ Place \in Nat /\ Place < Size(cur) /\ AtPlace
      /\ Size(cur) \in Nat
  BY PlaceType, SizeType DEF IInv
<1>2. CASE Place > 0
  <2>1. wire # <<>> /\ wire[Len(wire)] = <<cur, Place>> BY <1>1, <1>2 DEF AtPlace
  <2> QED BY <2>1, <1>1 DEF Whole
<1>3. CASE Place = 0
  <2>1. CASE cur = 1 BY <2>1, <1>1, <1>3 DEF AtPlace, Whole
  <2>2. CASE cur # 1
    <3>1. wire # <<>> /\ wire[Len(wire)] = <<cur - 1, Size(cur - 1)>>
      BY <2>2, <1>1, <1>3 DEF AtPlace
    <3> QED BY <3>1 DEF Whole
  <2> QED BY <2>1, <2>2
<1> QED BY <1>1, <1>2, <1>3

LEMMA RefineInit == Init => FL!Init
BY DEF Init, FL!Init, Whole, Failed

LEMMA RefineSend ==
  ASSUME IInv, NEW n \in 1..SNDBUF, Send(n)
  PROVE  ~Failed /\ ~Failed' /\ (Whole' = Whole \/ (Whole < Len(Frames) /\ Whole' = Whole + 1))
<1>1. /\ cur \in 1..Len(Frames) /\ Place \in Nat /\ Size(cur) \in Nat
  BY PlaceType, SizeType DEF Send
<1>2. ~Failed BY SendWire
<1>3. ~Failed' BY <1>2 DEF Send, Failed
<1>4. Whole = cur - 1 BY <1>2, WholeBehind DEF Send
<1>5. n \in Nat \ {0} /\ n \in 1..n BY SendAssumption
<1>6. Len(wire) \in Nat BY DEF IInv, TypeOK
<1>7. wire' # <<>> /\ wire'[Len(wire')] = <<cur, Place + n>>
  <2>1. Len(wire') = Len(wire) + n BY SendWire
  <2>2. wire'[Len(wire) + n] = <<cur, Place + n>> BY <1>5, SendWire
  <2> QED BY <2>1, <2>2, <1>5, <1>6
<1>8. Whole' = IF Place + n = Size(cur) THEN cur ELSE cur - 1
  BY <1>7 DEF Whole, Size
<1>9. Len(Frames) \in Nat BY SendAssumption
<1> QED BY <1>1, <1>2, <1>3, <1>4, <1>8, <1>9

LEMMA RefineReturn ==
  ASSUME IInv, SendFails \/ Done
  PROVE  Whole' = Whole /\ (Failed' = Failed \/ (~Failed /\ Failed'))
<1>1. UNCHANGED wire BY DEF SendFails, Done
<1>2. (Failed \in BOOLEAN) /\ (Failed' \in BOOLEAN) BY DEF Failed
<1>3. Failed => Failed'
  <2>1. result \in Seq(BOOLEAN) BY DEF IInv, TypeOK
  <2>2. result' = Append(result, TRUE) \/ result' = Append(result, FALSE)
    BY DEF SendFails, Done, Return
  <2>3. /\ Len(result') = Len(result) + 1
        /\ \A k \in 1..Len(result) : result'[k] = result[k]
    <3>1. TRUE \in BOOLEAN /\ FALSE \in BOOLEAN OBVIOUS
    <3>2. CASE result' = Append(result, TRUE) BY <2>1, <3>1, <3>2, AppendProperties, ZenonT(60)
    <3>3. CASE result' = Append(result, FALSE) BY <2>1, <3>1, <3>3, AppendProperties, ZenonT(60)
    <3> QED BY <2>2, <3>2, <3>3
  <2>4. Len(result) \in Nat BY <2>1
  <2>5. 1..Len(result) \subseteq 1..Len(result') BY <2>3, <2>4
  <2> QED BY <2>3, <2>5 DEF Failed
<1> QED BY <1>1, <1>2, <1>3 DEF Whole, Size

LEMMA RefineStep == IInv /\ [Next]_vars => [FL!Next]_(FL!vars)
<1> SUFFICES ASSUME IInv, [Next]_vars PROVE FL!Next \/ UNCHANGED FL!vars
  OBVIOUS
<1> USE DEF FL!Next, FL!Put, FL!Cut, FL!vars
<1>1. ASSUME NEW n \in 1..SNDBUF, Send(n) PROVE FL!Next \/ UNCHANGED FL!vars
  <2>1. Failed = FALSE /\ Failed' = FALSE BY <1>1, RefineSend DEF Failed
  <2> QED BY <2>1, <1>1, RefineSend
<1>2. CASE SendFails \/ Done BY <1>2, RefineReturn
<1>3. CASE Begin \/ Payload \/ PeerReads \/ PeerGoes \/ UNCHANGED vars
  <2>1. UNCHANGED <<wire, result>> BY <1>3 DEF Begin, Payload, PeerReads, PeerGoes, vars
  <2> QED BY <2>1 DEF Whole, Failed, Size
<1> QED BY <1>1, <1>2, <1>3 DEF Next, send_frame

(* send_frame implements FrameLine for any frames and socket buffers.      *)
THEOREM Refinement == Spec => RefinesFrameLine
BY RefineInit, RefineStep, Invariant, PTL DEF RefinesFrameLine, FL!Spec, Spec
=============================================================================
