---------------------------- MODULE RecordsProof ----------------------------
(***************************************************************************)
(* What PinStore promises of the PINs, and AuditTrail of the records and   *)
(* of those who read them, for any number of processes and requests, any   *)
(* codes and expirations, any users, pages and mixes of requests; and that *)
(* a behaviour of Records is one of each of its parts.                     *)
(***************************************************************************)
EXTENDS Records, FiniteSetTheorems, SequenceTheorems, NaturalsInduction, WellFoundedInduction, TLAPS
-----------------------------------------------------------------------------
(* THE PINS *)

(* As long as the document is not there, no request got past its first     *)
(* step, and no PIN was shown.                                             *)
DocThere ==
  pins = NoDoc => made = {} /\ \A r \in Creators \cup Validators : pc[r] \in {"idle", "failed"}

PinTypeInv == PinTypeOK /\ DocThere

LEMMA PinTypeStart == PinInit => PinTypeInv
  BY CodeAssumption, TimeAssumption
  DEF PinInit, PinTypeInv, PinTypeOK, DocThere, Control, Verdicts, Actors, Requests

(* The second line of the assumptions on actors, as the steps need it.     *)
LEMMA ActorsApart ==
  /\ \A b \in Boots : b \in Actors /\ b \notin Requests
  /\ \A r \in Requests : r \in Actors /\ r \notin Boots
  /\ \A r \in Creators : r \in Requests /\ r \notin Validators /\ r \notin Setters
  /\ \A r \in Validators : r \in Requests /\ r \notin Creators /\ r \notin Setters
  /\ \A r \in Setters : r \in Requests /\ r \notin Creators /\ r \notin Validators
  BY ActorAssumption DEF Actors, Requests

(* A write of the array a request holds keeps the types.                   *)
LEMMA WriteTyped ==
  ASSUME PinTypeInv, NEW r \in Creators \cup Validators, pc[r] \in Writing,
         \/ NoFault /\ WriteBack(r)
         \/ FailWriteBack(r)
  PROVE  /\ pins # NoDoc /\ pins' # NoDoc
         /\ pins' \in SUBSET Pin /\ buf' \in [Requests -> SUBSET Pin]
         /\ exposed' \in SUBSET Requests /\ faults' \in 0 .. MaxFaults
  <1>1. r \in Requests
    BY ActorsApart
  <1>2. pins # NoDoc
    BY DEF PinTypeInv, DocThere, Writing
  <1>3. pins \in SUBSET Pin /\ buf \in [Requests -> SUBSET Pin] /\ exposed \in SUBSET Requests
        /\ faults \in 0 .. MaxFaults
    BY <1>2 DEF PinTypeInv, PinTypeOK
  <1>4. faults' \in 0 .. MaxFaults
    BY <1>3, TimeAssumption DEF NoFault, FailWriteBack, Fault
  <1>5. CASE WriteBack(r)
    BY <1>1, <1>2, <1>3, <1>4, <1>5, NoDocAssumption DEF WriteBack
  <1>6. CASE buf' = [buf EXCEPT ![r] = {}] /\ UNCHANGED <<pins, exposed>>
    BY <1>1, <1>2, <1>3, <1>4, <1>6
  <1> QED BY <1>5, <1>6 DEF FailWriteBack

LEMMA PinTypeStep == PinTypeInv /\ [PinNext]_vars => PinTypeInv'
  <1> SUFFICES ASSUME PinTypeInv, [PinNext]_vars PROVE PinTypeInv'
    OBVIOUS
  <1> USE ActorsApart DEF PinTypeInv
  <1>1. CASE UNCHANGED vars
    BY <1>1 DEF vars, PinTypeOK, DocThere, Live
  <1>2. ASSUME NEW b \in Boots, BootLook(b) PROVE PinTypeInv'
    BY <1>2, TimeAssumption DEF BootLook, PinTypeOK, DocThere, Goto, NoFault, Fault, Control
  <1>3. ASSUME NEW b \in Boots, BootCreate(b) PROVE PinTypeInv'
    <2>1. pins' \in SUBSET Pin
      BY <1>3 DEF BootCreate, Created, PinTypeOK
    <2> QED BY <1>3, <2>1, NoDocAssumption DEF BootCreate, PinTypeOK, DocThere, Goto, Control
  <1>4. ASSUME NEW b \in Boots, BootGlobal(b) PROVE PinTypeInv'
    BY <1>4, CodeAssumption DEF BootGlobal, PinTypeOK, DocThere
  <1>5. ASSUME NEW r \in Setters, UpdateSecurityPin(r) PROVE PinTypeInv'
    BY <1>5, CodeAssumption, TimeAssumption
    DEF UpdateSecurityPin, PinTypeOK, DocThere, Goto, NoFault, Fault, Control
  <1>6. ASSUME NEW r \in Creators, CreateRead(r) PROVE PinTypeInv'
    <2>1. CASE pc' = [pc EXCEPT ![r] = "failed"] /\ UNCHANGED buf
      BY <1>6, <2>1, TimeAssumption DEF CreateRead, PinTypeOK, DocThere, Goto, NoFault, Fault, Control
    <2>2. ASSUME pins # NoDoc, NoFault, Goto(r, "create"), NEW e \in Dates \cup {now + Life},
                 buf' = [buf EXCEPT ![r] = pins \cup {NewPin(r, e)}]
          PROVE  PinTypeInv'
      <3>1. e \in Nat
        BY TimeAssumption DEF PinTypeOK
      <3>2. NewPin(r, e) \in Pin
        BY <3>1, CodeAssumption DEF NewPin, Pin
      <3>3. pins \cup {NewPin(r, e)} \in SUBSET Pin
        BY <3>2, <2>2 DEF PinTypeOK
      <3> QED BY <1>6, <2>2, <3>3 DEF CreateRead, PinTypeOK, DocThere, Goto, NoFault, Control
    <2> QED BY <1>6, <2>1, <2>2 DEF CreateRead, Goto
  <1>7. ASSUME NEW r \in Creators, CreateWrite(r) PROVE PinTypeInv'
    <2>1. pins # NoDoc /\ pins' # NoDoc /\ pins' \in SUBSET Pin /\ buf' \in [Requests -> SUBSET Pin]
          /\ exposed' \in SUBSET Requests /\ faults' \in 0 .. MaxFaults
      BY <1>7, WriteTyped DEF CreateWrite, Writing
    <2>2. made' \in SUBSET Pin
      BY <1>7 DEF CreateWrite, PinTypeOK
    <2> QED BY <1>7, <2>1, <2>2 DEF CreateWrite, PinTypeOK, DocThere, Goto, Control
  <1>8. ASSUME NEW r \in Validators, ValidateRead(r) PROVE PinTypeInv'
    <2>1. CASE pc' = [pc EXCEPT ![r] = "failed"] /\ UNCHANGED <<verdict, told>>
      BY <1>8, <2>1, TimeAssumption DEF ValidateRead, PinTypeOK, DocThere, NoFault, Fault, Control
    <2>2. CASE /\ pins # NoDoc /\ NoFault
               /\ verdict' = [verdict EXCEPT ![r] = Judge(pins, CodeOf[r])]
               /\ told' = [told EXCEPT ![r] = IF verdict'[r] = "expired"
                                              THEN Matching(pins, CodeOf[r]) ELSE {}]
               /\ \E l \in {"done", "clean", "old"} : pc' = [pc EXCEPT ![r] = l]
      <3>1. pins \in SUBSET Pin /\ told' \in [Validators -> SUBSET Pin]
        BY <2>2 DEF PinTypeOK, Matching
      <3>2. verdict' \in [Validators -> Verdicts]
        BY <2>2 DEF PinTypeOK, Judge, Verdicts
      <3> QED BY <1>8, <2>2, <3>1, <3>2 DEF ValidateRead, PinTypeOK, DocThere, NoFault, Control
    <2> QED BY <1>8, <2>1, <2>2 DEF ValidateRead, Goto
  <1>9. ASSUME NEW r \in Validators, CleanRead(r) PROVE PinTypeInv'
    <2>1. pins # NoDoc /\ pins \in SUBSET Pin
      BY <1>9 DEF CleanRead, DocThere, PinTypeOK
    <2>2. KeptByClean(pins) \in SUBSET Pin
      BY <2>1 DEF KeptByClean, Live
    <2> QED BY <1>9, <2>1, <2>2, TimeAssumption
            DEF CleanRead, PinTypeOK, DocThere, Goto, NoFault, Fault, Control
  <1>10. ASSUME NEW r \in Validators, CleanWrite(r) PROVE PinTypeInv'
    <2>1. pins # NoDoc /\ pins' # NoDoc /\ pins' \in SUBSET Pin /\ buf' \in [Requests -> SUBSET Pin]
          /\ exposed' \in SUBSET Requests /\ faults' \in 0 .. MaxFaults
      BY <1>10, WriteTyped DEF CleanWrite, Writing
    <2> QED BY <1>10, <2>1 DEF CleanWrite, PinTypeOK, DocThere, Goto, Control
  <1>11. ASSUME NEW r \in Validators, OldRead(r) PROVE PinTypeInv'
    <2>1. pins # NoDoc /\ pins \in SUBSET Pin
      BY <1>11 DEF OldRead, DocThere, PinTypeOK
    <2>2. Fresh(pins) \in SUBSET Pin
      BY <2>1 DEF Fresh
    <2> QED BY <1>11, <2>1, <2>2, TimeAssumption
            DEF OldRead, PinTypeOK, DocThere, Goto, NoFault, Fault, Control
  <1>12. ASSUME NEW r \in Validators, OldWrite(r) PROVE PinTypeInv'
    <2>1. pins # NoDoc /\ pins' # NoDoc /\ pins' \in SUBSET Pin /\ buf' \in [Requests -> SUBSET Pin]
          /\ exposed' \in SUBSET Requests /\ faults' \in 0 .. MaxFaults
      BY <1>12, WriteTyped DEF OldWrite, Writing
    <2> QED BY <1>12, <2>1 DEF OldWrite, PinTypeOK, DocThere, Goto, Control
  <1>13. CASE Tick
    BY <1>13, TimeAssumption DEF Tick, PinTypeOK, DocThere
  <1> QED BY <1>1, <1>2, <1>3, <1>4, <1>5, <1>6, <1>7, <1>8, <1>9, <1>10, <1>11, <1>12, <1>13 DEF PinNext

(* The variables of the settings keep their types.                         *)
THEOREM PinTypesCorrect == PinSpec => []PinTypeOK
  <1>1. PinSpec => []PinTypeInv
    BY PinTypeStart, PinTypeStep, PTL DEF PinSpec
  <1> QED BY <1>1, PTL DEF PinTypeInv
-----------------------------------------------------------------------------
(* Whoever is about to write back an array has in it every PIN that was    *)
(* shown, is alive, and was not written over by somebody's older array:    *)
(* without this, the PINs of the document would not survive the next write.*)
Unspent == {p \in made : p.exp > now /\ p.by \notin exposed}

IssuedHeld == \A q \in Requests : pc[q] \in Writing => Unspent \subseteq buf[q]

IssuedInv == IssuedPinsKept /\ IssuedHeld

(* A step that leaves the arrays alone, and lets nobody hold a new one.    *)
LEMMA IssuedFrame ==
  ASSUME PinTypeInv, IssuedInv, UNCHANGED <<pins, buf, made, exposed>>, now' \in Nat, now' >= now,
         \A q \in Requests : pc'[q] \in Writing => pc[q] \in Writing
  PROVE  IssuedInv'
  <1>1. Unspent' \subseteq Unspent
    <2>1. made \subseteq Pin /\ now \in Nat
      BY TimeAssumption DEF PinTypeInv, PinTypeOK
    <2>2. \A p \in made : p.exp \in Nat
      BY <2>1 DEF Pin
    <2> QED BY <2>1, <2>2 DEF Unspent
  <1>2. pins # NoDoc => Unspent \subseteq pins
    BY DEF IssuedInv, IssuedPinsKept, Unspent
  <1>3. IssuedHeld'
    BY <1>1 DEF IssuedInv, IssuedHeld
  <1>4. IssuedPinsKept'
    BY <1>1, <1>2 DEF IssuedPinsKept, Unspent
  <1> QED BY <1>3, <1>4 DEF IssuedInv

(* A request takes the PINs that are there, or all of them that are alive. *)
LEMMA IssuedTaken ==
  ASSUME PinTypeInv, IssuedInv, NEW r \in Requests, NEW ps, Unspent \subseteq ps,
         UNCHANGED <<pins, made, exposed, now>>,
         buf' = [buf EXCEPT ![r] = ps], NEW l, pc' = [pc EXCEPT ![r] = l]
  PROVE  IssuedInv'
  <1>1. Unspent' = Unspent
    BY DEF Unspent
  <1>2. buf'[r] = ps /\ \A q \in Requests \ {r} : buf'[q] = buf[q] /\ pc'[q] = pc[q]
    BY ActorsApart DEF PinTypeInv, PinTypeOK
  <1>3. IssuedHeld'
    BY <1>1, <1>2 DEF IssuedInv, IssuedHeld
  <1>4. IssuedPinsKept'
    BY DEF IssuedInv, IssuedPinsKept
  <1> QED BY <1>3, <1>4 DEF IssuedInv

(* A request writes what it holds, and stops holding it.  What it is shown *)
(* is in no array that another still holds, unless that exposes it.        *)
LEMMA IssuedWritten ==
  ASSUME PinTypeInv, IssuedInv, NEW r \in Creators \cup Validators, pc[r] \in Writing,
         NEW l, l \notin Writing, pc' = [pc EXCEPT ![r] = l], now' = now,
         \/ WriteBack(r) /\ made' = made \cup {p \in buf[r] : p.by = r}
         \/ WriteBack(r) /\ made' = made
         \/ buf' = [buf EXCEPT ![r] = {}] /\ UNCHANGED <<pins, exposed, made>>
  PROVE  IssuedInv'
  <1>1. r \in Requests /\ pins # NoDoc
    BY ActorsApart DEF PinTypeInv, DocThere, Writing
  <1>2. Unspent \subseteq pins /\ Unspent \subseteq buf[r]
    BY <1>1 DEF IssuedInv, IssuedPinsKept, IssuedHeld, Unspent
  <1>3. \A q \in Requests : pc'[q] \in Writing =>
          q # r /\ q \in Holding(r) /\ buf'[q] = buf[q] /\ Unspent \subseteq buf[q]
    <2> SUFFICES ASSUME NEW q \in Requests, pc'[q] \in Writing
                 PROVE  q # r /\ q \in Holding(r) /\ buf'[q] = buf[q] /\ Unspent \subseteq buf[q]
      OBVIOUS
    <2>1. q # r /\ pc'[q] = pc[q]
      BY <1>1, ActorsApart DEF PinTypeInv, PinTypeOK
    <2>2. buf'[q] = buf[q]
      BY <1>1, <2>1 DEF WriteBack, PinTypeInv, PinTypeOK
    <2> QED BY <2>1, <2>2 DEF Holding, IssuedInv, IssuedHeld
  <1>4. CASE WriteBack(r) /\ made' = made \cup {p \in buf[r] : p.by = r}
    <2>1. \A p \in Unspent' : p \in Unspent \/ (p \in buf[r] /\ p.by = r /\ Holding(r) = {})
      BY <1>4 DEF Unspent, WriteBack
    <2>2. Unspent' \subseteq buf[r]
      BY <1>2, <2>1
    <2>3. IssuedPinsKept'
      BY <1>4, <2>2 DEF IssuedPinsKept, Unspent, WriteBack
    <2>4. IssuedHeld'
      BY <1>3, <2>1 DEF IssuedHeld
    <2> QED BY <2>3, <2>4 DEF IssuedInv
  <1>5. CASE WriteBack(r) /\ made' = made
    <2>1. Unspent' \subseteq Unspent
      BY <1>5 DEF Unspent, WriteBack
    <2>2. IssuedPinsKept'
      BY <1>2, <1>5, <2>1 DEF IssuedPinsKept, Unspent, WriteBack
    <2>3. IssuedHeld'
      BY <1>3, <2>1 DEF IssuedHeld
    <2> QED BY <2>2, <2>3 DEF IssuedInv
  <1>6. CASE buf' = [buf EXCEPT ![r] = {}] /\ UNCHANGED <<pins, exposed, made>>
    <2>1. Unspent' = Unspent
      BY <1>6 DEF Unspent
    <2>2. IssuedPinsKept'
      BY <1>2, <1>6, <2>1 DEF IssuedPinsKept, Unspent
    <2>3. IssuedHeld'
      BY <1>3, <2>1 DEF IssuedHeld
    <2> QED BY <2>2, <2>3 DEF IssuedInv
  <1> QED BY <1>4, <1>5, <1>6

LEMMA IssuedStart == PinInit => IssuedInv
  BY ActorsApart DEF PinInit, IssuedInv, IssuedPinsKept, IssuedHeld, Writing, Actors

LEMMA IssuedStep == PinTypeInv /\ IssuedInv /\ [PinNext]_vars => IssuedInv'
  <1> SUFFICES ASSUME PinTypeInv, IssuedInv, [PinNext]_vars PROVE IssuedInv'
    OBVIOUS
  <1> USE ActorsApart
  <1>0. now \in Nat /\ pc \in [Actors -> Control] /\ (pins # NoDoc => Unspent \subseteq pins)
    BY TimeAssumption DEF PinTypeInv, PinTypeOK, IssuedInv, IssuedPinsKept, Unspent
  <1>1. CASE UNCHANGED vars
    BY <1>0, <1>1, IssuedFrame DEF vars
  <1>2. ASSUME NEW b \in Boots, BootLook(b) PROVE IssuedInv'
    <2>1. \A q \in Requests : pc'[q] = pc[q]
      BY <1>0, <1>2 DEF BootLook, Goto
    <2> QED BY <1>0, <1>2, <2>1, IssuedFrame DEF BootLook
  <1>3. ASSUME NEW b \in Boots, BootCreate(b) PROVE IssuedInv'
    <2>1. \A q \in Requests : pc'[q] = pc[q]
      BY <1>0, <1>3 DEF BootCreate, Goto
    <2>2. Unspent' = Unspent /\ (pins = NoDoc => Unspent = {})
      BY <1>3 DEF BootCreate, Unspent, PinTypeInv, DocThere
    <2>3. Unspent \subseteq pins'
      BY <1>0, <1>3, <2>2 DEF BootCreate, Created
    <2>4. IssuedPinsKept'
      BY <2>2, <2>3 DEF IssuedPinsKept, Unspent
    <2>5. IssuedHeld'
      BY <1>3, <2>1, <2>2 DEF BootCreate, IssuedInv, IssuedHeld
    <2> QED BY <2>4, <2>5 DEF IssuedInv
  <1>4. ASSUME NEW b \in Boots, BootGlobal(b) PROVE IssuedInv'
    BY <1>0, <1>4, IssuedFrame DEF BootGlobal
  <1>5. ASSUME NEW r \in Setters, UpdateSecurityPin(r) PROVE IssuedInv'
    <2>1. \A q \in Requests : pc'[q] \in Writing => pc[q] \in Writing
      BY <1>0, <1>5 DEF UpdateSecurityPin, Goto, Writing
    <2> QED BY <1>0, <1>5, <2>1, IssuedFrame DEF UpdateSecurityPin
  <1>6. ASSUME NEW r \in Creators, CreateRead(r) PROVE IssuedInv'
    <2>1. CASE pc' = [pc EXCEPT ![r] = "failed"] /\ UNCHANGED buf
      <3>1. \A q \in Requests : pc'[q] \in Writing => pc[q] \in Writing
        BY <1>0, <2>1 DEF Writing
      <3> QED BY <1>0, <1>6, <2>1, <3>1, IssuedFrame DEF CreateRead
    <2>2. ASSUME pins # NoDoc, Goto(r, "create"), NEW e,
                 buf' = [buf EXCEPT ![r] = pins \cup {NewPin(r, e)}]
          PROVE  IssuedInv'
      <3>1. Unspent \subseteq pins \cup {NewPin(r, e)}
        BY <1>0, <2>2
      <3> QED BY <1>6, <2>2, <3>1, IssuedTaken DEF CreateRead, Goto
    <2> QED BY <1>6, <2>1, <2>2 DEF CreateRead, Goto
  <1>7. ASSUME NEW r \in Creators, CreateWrite(r) PROVE IssuedInv'
    <2>1. PICK l \in {"done", "failed"} : pc' = [pc EXCEPT ![r] = l]
      BY <1>7 DEF CreateWrite, Goto
    <2> QED BY <1>7, <2>1, IssuedWritten DEF CreateWrite, FailWriteBack, Writing
  <1>8. ASSUME NEW r \in Validators, ValidateRead(r) PROVE IssuedInv'
    <2>1. \A q \in Requests : pc'[q] \in Writing => pc[q] \in Writing
      BY <1>0, <1>8 DEF ValidateRead, Goto, Writing
    <2> QED BY <1>0, <1>8, <2>1, IssuedFrame DEF ValidateRead
  <1>9. ASSUME NEW r \in Validators, CleanRead(r) PROVE IssuedInv'
    <2>1. CASE Goto(r, "old") /\ UNCHANGED buf
      <3>1. \A q \in Requests : pc'[q] \in Writing => pc[q] \in Writing
        BY <1>0, <2>1 DEF Goto, Writing
      <3> QED BY <1>0, <1>9, <2>1, <3>1, IssuedFrame DEF CleanRead
    <2>2. CASE Goto(r, "cleaning") /\ buf' = [buf EXCEPT ![r] = KeptByClean(pins)]
      <3>1. Unspent \subseteq KeptByClean(pins)
        BY <1>0, <1>9 DEF CleanRead, KeptByClean, Live, Unspent, PinTypeInv, DocThere
      <3> QED BY <1>9, <2>2, <3>1, IssuedTaken DEF CleanRead, Goto
    <2> QED BY <1>9, <2>1, <2>2 DEF CleanRead
  <1>10. ASSUME NEW r \in Validators, CleanWrite(r) PROVE IssuedInv'
    BY <1>10, IssuedWritten DEF CleanWrite, FailWriteBack, Goto, Writing
  <1>11. ASSUME NEW r \in Validators, OldRead(r) PROVE IssuedInv'
    <2>1. CASE Goto(r, "done") /\ UNCHANGED buf
      <3>1. \A q \in Requests : pc'[q] \in Writing => pc[q] \in Writing
        BY <1>0, <2>1 DEF Goto, Writing
      <3> QED BY <1>0, <1>11, <2>1, <3>1, IssuedFrame DEF OldRead
    <2>2. CASE Goto(r, "deleting") /\ buf' = [buf EXCEPT ![r] = Fresh(pins)]
      <3>1. Unspent \subseteq Fresh(pins)
        BY <1>0, <1>11 DEF OldRead, Fresh, Unspent, PinTypeInv, DocThere
      <3> QED BY <1>11, <2>2, <3>1, IssuedTaken DEF OldRead, Goto
    <2> QED BY <1>11, <2>1, <2>2 DEF OldRead
  <1>12. ASSUME NEW r \in Validators, OldWrite(r) PROVE IssuedInv'
    BY <1>12, IssuedWritten DEF OldWrite, FailWriteBack, Goto, Writing
  <1>13. CASE Tick
    BY <1>0, <1>13, IssuedFrame DEF Tick
  <1> QED BY <1>1, <1>2, <1>3, <1>4, <1>5, <1>6, <1>7, <1>8, <1>9, <1>10, <1>11, <1>12, <1>13 DEF PinNext

(* A PIN that was shown to its creator stays in the store until it         *)
(* expires, however creations and clean-ups interleave and fail, unless    *)
(* somebody held an older array when it was written.                       *)
THEOREM IssuedPinsStay == PinSpec => []IssuedPinsKept
  <1>1. PinSpec => []PinTypeInv
    BY PinTypeStart, PinTypeStep, PTL DEF PinSpec
  <1>2. PinSpec => []IssuedInv
    BY <1>1, IssuedStart, IssuedStep, PTL DEF PinSpec
  <1> QED BY <1>2, PTL DEF IssuedInv
-----------------------------------------------------------------------------
(* Whose PINs are where.  A creation that is over cannot add its PIN       *)
(* again: the PINs of the document are of such creations, and those a      *)
(* request holds too, but for the one it is about to add itself.           *)
Made == {"done", "failed"}

Own(q) == {p \in buf[q] : p.by = q}

MakersDone ==
  /\ pins # NoDoc => \A p \in pins : pc[p.by] \in Made
  /\ \A q \in Requests : pc[q] \in Writing => \A p \in buf[q] : p.by = q \/ pc[p.by] \in Made
  /\ \A c \in Creators : pc[c] = "create" => Own(c) # {}
  /\ \A q \in Setters : pc[q] \in {"idle", "done", "failed"}

(* What a validation calls expired is, and its creation is over.           *)
ToldExpired == \A r \in Validators : \A p \in told[r] : pc[p.by] \in Made /\ p.exp <= now

MakerInv == MakersDone /\ ToldExpired

LEMMA MakerStart == PinInit => MakerInv
  BY ActorsApart, NoDocAssumption DEF PinInit, MakerInv, MakersDone, ToldExpired, Writing, Actors

(* A step that leaves the arrays alone, and lets nobody hold a new one.    *)
LEMMA MakerFrame ==
  ASSUME PinTypeInv, MakerInv, UNCHANGED <<pins, buf, told>>, now' \in Nat, now' >= now,
         \A q \in Requests : \/ pc'[q] = pc[q]
                             \/ pc[q] \notin Made /\ pc'[q] \notin Writing
                                /\ (q \in Setters => pc'[q] \in Made)
  PROVE  MakerInv'
  <1>1. \A q \in Requests : /\ pc[q] \in Made => pc'[q] \in Made
                            /\ pc'[q] \in Writing => pc'[q] = pc[q]
    BY DEF Made
  <1>2. /\ pins # NoDoc => \A p \in pins : p.by \in Requests
        /\ \A q \in Requests : \A p \in buf[q] : p.by \in Requests
        /\ \A r \in Validators : \A p \in told[r] : p.by \in Requests /\ p.exp \in Nat
        /\ now \in Nat
    BY ActorsApart, TimeAssumption DEF PinTypeInv, PinTypeOK, Pin
  <1>3. \A q \in Requests : Own(q)' = Own(q)
    BY DEF Own
  <1>4. MakersDone'
    <2>1. pins' # NoDoc => \A p \in pins' : pc'[p.by] \in Made
      BY <1>1, <1>2 DEF MakerInv, MakersDone
    <2>2. \A q \in Requests : pc'[q] \in Writing =>
            \A p \in buf'[q] : p.by = q \/ pc'[p.by] \in Made
      BY <1>1, <1>2 DEF MakerInv, MakersDone
    <2>3. \A c \in Creators : pc'[c] = "create" => Own(c)' # {}
      BY <1>1, <1>3, ActorsApart DEF MakerInv, MakersDone, Writing
    <2>4. \A q \in Setters : pc'[q] \in {"idle", "done", "failed"}
      BY ActorsApart DEF MakerInv, MakersDone, Made
    <2> QED BY <2>1, <2>2, <2>3, <2>4 DEF MakersDone
  <1>5. ToldExpired'
    BY <1>1, <1>2 DEF MakerInv, ToldExpired
  <1> QED BY <1>4, <1>5 DEF MakerInv

(* A clean-up takes some of the PINs that are there, to write them back.   *)
LEMMA MakerTaken ==
  ASSUME PinTypeInv, MakerInv, NEW r \in Validators, NEW ps \in SUBSET pins, pins # NoDoc,
         UNCHANGED <<pins, told, now>>, pc[r] \notin Made,
         buf' = [buf EXCEPT ![r] = ps], NEW l, pc' = [pc EXCEPT ![r] = l]
  PROVE  MakerInv'
  <1>1. r \in Requests /\ r \notin Creators /\ r \notin Setters
    BY ActorsApart
  <1>2. buf'[r] = ps /\ pc'[r] = l /\ \A q \in Requests \ {r} : buf'[q] = buf[q] /\ pc'[q] = pc[q]
    BY <1>1, ActorsApart DEF PinTypeInv, PinTypeOK
  <1>3. /\ \A p \in pins : p.by \in Creators
        /\ \A q \in Requests : \A p \in buf[q] : p.by \in Creators
        /\ \A s \in Validators : \A p \in told[s] : p.by \in Creators
    BY DEF PinTypeInv, PinTypeOK, Pin
  <1>4. \A c \in Creators : pc'[c] = pc[c] /\ Own(c)' = Own(c)
    BY <1>1, <1>2, ActorsApart DEF Own
  <1>5. MakersDone'
    <2>1. \A p \in pins : pc'[p.by] \in Made
      BY <1>3, <1>4 DEF MakerInv, MakersDone
    <2>2. \A q \in Requests : pc'[q] \in Writing =>
            \A p \in buf'[q] : p.by = q \/ pc'[p.by] \in Made
      BY <1>2, <1>3, <1>4, <2>1 DEF MakerInv, MakersDone
    <2>3. \A q \in Setters : pc'[q] \in {"idle", "done", "failed"}
      BY <1>1, <1>2, ActorsApart DEF MakerInv, MakersDone
    <2> QED BY <1>4, <2>1, <2>2, <2>3 DEF MakerInv, MakersDone
  <1>6. ToldExpired'
    BY <1>3, <1>4 DEF MakerInv, ToldExpired
  <1> QED BY <1>5, <1>6 DEF MakerInv

(* A request writes what it holds, or fails to.                            *)
LEMMA MakerWritten ==
  ASSUME PinTypeInv, MakerInv, NEW r \in Creators \cup Validators, pc[r] \in Writing,
         NEW l, l \notin Writing, pc' = [pc EXCEPT ![r] = l], r \in Creators => l \in Made,
         UNCHANGED <<now, told>>,
         \/ WriteBack(r)
         \/ buf' = [buf EXCEPT ![r] = {}] /\ pins' = pins
  PROVE  MakerInv'
  <1>1. r \in Requests /\ r \notin Setters /\ pins # NoDoc /\ pc[r] \notin Made
    BY ActorsApart DEF PinTypeInv, DocThere, Writing, Made
  <1>2. /\ pc'[r] = l
        /\ \A q \in Requests \ {r} : pc'[q] = pc[q] /\ buf'[q] = buf[q]
    BY <1>1, ActorsApart DEF PinTypeInv, PinTypeOK, WriteBack
  <1>3. /\ \A p \in pins : p.by \in Creators
        /\ \A q \in Requests : \A p \in buf[q] : p.by \in Creators
        /\ \A s \in Validators : \A p \in told[s] : p.by \in Creators
    BY <1>1 DEF PinTypeInv, PinTypeOK, Pin
  <1>4. \A c \in Creators : pc[c] \in Made \/ c = r => pc'[c] \in Made
    BY <1>1, <1>2, ActorsApart
  <1>5. MakersDone'
    <2>1. \A p \in pins' : pc'[p.by] \in Made
      <3>1. CASE WriteBack(r)
        BY <1>1, <1>3, <1>4, <3>1 DEF MakerInv, MakersDone, WriteBack
      <3>2. CASE pins' = pins
        BY <1>1, <1>3, <1>4, <3>2 DEF MakerInv, MakersDone
      <3> QED BY <3>1, <3>2
    <2>2. \A q \in Requests : pc'[q] \in Writing =>
            \A p \in buf'[q] : p.by = q \/ pc'[p.by] \in Made
      BY <1>2, <1>3, <1>4 DEF MakerInv, MakersDone
    <2>3. \A c \in Creators : pc'[c] = "create" => Own(c)' # {}
      <3>1. SUFFICES ASSUME NEW c \in Creators, pc'[c] = "create" PROVE Own(c)' # {}
        OBVIOUS
      <3>2. c # r
        BY <1>2, <3>1 DEF Writing
      <3> QED BY <1>2, <3>1, <3>2, ActorsApart DEF MakerInv, MakersDone, Own
    <2>4. \A q \in Setters : pc'[q] \in {"idle", "done", "failed"}
      BY <1>1, <1>2, ActorsApart DEF MakerInv, MakersDone
    <2> QED BY <2>1, <2>2, <2>3, <2>4 DEF MakersDone
  <1>6. ToldExpired'
    BY <1>3, <1>4 DEF MakerInv, ToldExpired
  <1> QED BY <1>5, <1>6 DEF MakerInv

(* A validation that calls a PIN expired found it so.                      *)
LEMMA MakerJudged ==
  ASSUME PinTypeInv, MakerInv, NEW r \in Validators, pc[r] \notin Made, pins # NoDoc,
         UNCHANGED <<pins, buf, now>>,
         told' = [told EXCEPT ![r] = IF verdict'[r] = "expired"
                                     THEN Matching(pins, CodeOf[r]) ELSE {}],
         verdict' = [verdict EXCEPT ![r] = Judge(pins, CodeOf[r])],
         NEW l \in Control, l \notin Writing, pc' = [pc EXCEPT ![r] = l]
  PROVE  MakerInv'
  <1>1. r \in Requests /\ r \notin Creators /\ r \notin Setters
    BY ActorsApart
  <1>2. \A q \in Requests \ {r} : pc'[q] = pc[q]
    BY ActorsApart DEF PinTypeInv, PinTypeOK
  <1>3. /\ \A p \in pins : p.by \in Creators
        /\ \A q \in Requests : \A p \in buf[q] : p.by \in Creators
        /\ \A s \in Validators : \A p \in told[s] : p.by \in Creators
        /\ \A c \in Creators : pc'[c] = pc[c] /\ Own(c)' = Own(c)
    BY <1>1, <1>2, ActorsApart DEF PinTypeInv, PinTypeOK, Pin, Own
  <1>4. MakersDone'
    <2>1. \A p \in pins' : pc'[p.by] \in Made
      BY <1>3 DEF MakerInv, MakersDone
    <2>2. \A q \in Requests : pc'[q] \in Writing =>
            \A p \in buf'[q] : p.by = q \/ pc'[p.by] \in Made
      BY <1>1, <1>2, <1>3, ActorsApart DEF MakerInv, MakersDone, PinTypeInv, PinTypeOK
    <2>3. \A q \in Setters : pc'[q] \in {"idle", "done", "failed"}
      BY <1>1, <1>2, ActorsApart DEF MakerInv, MakersDone
    <2> QED BY <1>3, <2>1, <2>2, <2>3 DEF MakerInv, MakersDone
  <1>5. \A p \in told'[r] : p \in pins /\ p.exp <= now
    <2>1. SUFFICES ASSUME NEW p \in told'[r] PROVE p \in pins /\ p.exp <= now
      OBVIOUS
    <2>2. told'[r] = IF verdict'[r] = "expired" THEN Matching(pins, CodeOf[r]) ELSE {}
      BY DEF PinTypeInv, PinTypeOK
    <2>3. verdict'[r] = Judge(pins, CodeOf[r])
      BY DEF PinTypeInv, PinTypeOK
    <2>4. p \in Matching(pins, CodeOf[r]) /\ Matching(Live(pins), CodeOf[r]) = {}
      BY <2>1, <2>2, <2>3 DEF Judge
    <2>5. p \in pins /\ p \notin Live(pins)
      BY <2>4 DEF Matching
    <2>6. p.exp \in Nat /\ now \in Nat
      BY <2>5, TimeAssumption DEF PinTypeInv, PinTypeOK, Pin
    <2> QED BY <2>5, <2>6 DEF Live
  <1>6. ToldExpired'
    <2>1. \A s \in Validators \ {r} : told'[s] = told[s]
      BY DEF PinTypeInv, PinTypeOK
    <2> QED BY <1>3, <1>5, <2>1 DEF MakerInv, MakersDone, ToldExpired
  <1> QED BY <1>4, <1>6 DEF MakerInv

LEMMA MakerStep == PinTypeInv /\ MakerInv /\ [PinNext]_vars => MakerInv'
  <1> SUFFICES ASSUME PinTypeInv, MakerInv, [PinNext]_vars PROVE MakerInv'
    OBVIOUS
  <1> USE ActorsApart
  <1>0. now \in Nat /\ pc \in [Actors -> Control]
    BY TimeAssumption DEF PinTypeInv, PinTypeOK
  <1>1. CASE UNCHANGED vars
    BY <1>0, <1>1, MakerFrame DEF vars
  <1>2. ASSUME NEW b \in Boots, BootLook(b) PROVE MakerInv'
    <2>1. \A q \in Requests : pc'[q] = pc[q]
      BY <1>0, <1>2 DEF BootLook, Goto
    <2> QED BY <1>0, <1>2, <2>1, MakerFrame DEF BootLook
  <1>3. ASSUME NEW b \in Boots, BootCreate(b) PROVE MakerInv'
    <2>1. \A q \in Requests : pc'[q] = pc[q] /\ Own(q)' = Own(q)
      BY <1>0, <1>3 DEF BootCreate, Goto, Own
    <2>2. /\ pins # NoDoc => \A p \in pins : p.by \in Requests
          /\ \A q \in Requests : \A p \in buf[q] : p.by \in Requests
          /\ \A r \in Validators : \A p \in told[r] : p.by \in Requests
      BY DEF PinTypeInv, PinTypeOK, Pin
    <2>3. \A p \in pins' : p \in pins /\ pins # NoDoc
      BY <1>3 DEF BootCreate, Created
    <2>4. MakersDone'
      BY <1>3, <2>1, <2>2, <2>3 DEF BootCreate, MakerInv, MakersDone
    <2>5. ToldExpired'
      BY <1>3, <2>1, <2>2 DEF BootCreate, MakerInv, ToldExpired
    <2> QED BY <2>4, <2>5 DEF MakerInv
  <1>4. ASSUME NEW b \in Boots, BootGlobal(b) PROVE MakerInv'
    BY <1>0, <1>4, MakerFrame DEF BootGlobal
  <1>5. ASSUME NEW r \in Setters, UpdateSecurityPin(r) PROVE MakerInv'
    <2>1. \A q \in Requests : pc'[q] = pc[q] \/ (q = r /\ pc[q] = "idle" /\ pc'[q] \in Made)
      BY <1>0, <1>5 DEF UpdateSecurityPin, Goto, Made
    <2>2. \A q \in Requests : pc'[q] = pc[q] \/ (pc[q] \notin Made /\ pc'[q] \notin Writing
                                                 /\ (q \in Setters => pc'[q] \in Made))
      BY <2>1 DEF Made, Writing
    <2> QED BY <1>0, <1>5, <2>2, MakerFrame DEF UpdateSecurityPin
  <1>6. ASSUME NEW r \in Creators, CreateRead(r) PROVE MakerInv'
    <2>1. CASE pc' = [pc EXCEPT ![r] = "failed"] /\ UNCHANGED buf
      <3>1. \A q \in Requests : pc'[q] = pc[q] \/ (pc[q] \notin Made /\ pc'[q] \notin Writing
                                                   /\ (q \in Setters => pc'[q] \in Made))
        BY <1>0, <1>6, <2>1 DEF CreateRead, Made, Writing
      <3> QED BY <1>0, <1>6, <2>1, <3>1, MakerFrame DEF CreateRead
    <2>2. ASSUME pins # NoDoc, Goto(r, "create"), NEW e,
                 buf' = [buf EXCEPT ![r] = pins \cup {NewPin(r, e)}]
          PROVE  MakerInv'
      <3>1. /\ buf'[r] = pins \cup {NewPin(r, e)} /\ NewPin(r, e).by = r
            /\ pc[r] = "idle" /\ pc'[r] = "create"
            /\ \A q \in Requests \ {r} : buf'[q] = buf[q] /\ pc'[q] = pc[q]
        BY <1>0, <1>6, <2>2 DEF CreateRead, Goto, NewPin, PinTypeInv, PinTypeOK
      <3>2. /\ \A p \in pins : p.by \in Creators
            /\ \A q \in Requests : \A p \in buf[q] : p.by \in Creators
            /\ \A s \in Validators : \A p \in told[s] : p.by \in Creators
        BY <2>2 DEF PinTypeInv, PinTypeOK, Pin
      <3>3. \A q \in Requests : pc[q] \in Made => q # r /\ pc'[q] \in Made
        BY <3>1 DEF Made
      <3>4. \A p \in pins : pc'[p.by] \in Made
        BY <2>2, <3>2, <3>3 DEF MakerInv, MakersDone
      <3>5. \A q \in Requests : pc'[q] \in Writing =>
              \A p \in buf'[q] : p.by = q \/ pc'[p.by] \in Made
        <4>1. \A p \in buf'[r] : p.by = r \/ pc'[p.by] \in Made
          BY <3>1, <3>4
        <4> QED BY <3>1, <3>2, <3>3, <4>1 DEF MakerInv, MakersDone
      <3>6. \A c \in Creators : pc'[c] = "create" => Own(c)' # {}
        <4>1. NewPin(r, e) \in Own(r)'
          BY <3>1 DEF Own
        <4>2. \A c \in Creators \ {r} : Own(c)' = Own(c)
          BY <3>1 DEF Own
        <4> QED BY <3>1, <4>1, <4>2 DEF MakerInv, MakersDone
      <3>7. \A q \in Setters : pc'[q] \in {"idle", "done", "failed"}
        BY <3>1 DEF MakerInv, MakersDone
      <3>8. MakersDone'
        BY <1>6, <3>4, <3>5, <3>6, <3>7 DEF CreateRead, MakersDone
      <3>9. ToldExpired'
        BY <1>6, <3>2, <3>3 DEF CreateRead, MakerInv, ToldExpired
      <3> QED BY <3>8, <3>9 DEF MakerInv
    <2> QED BY <1>6, <2>1, <2>2 DEF CreateRead, Goto
  <1>7. ASSUME NEW r \in Creators, CreateWrite(r) PROVE MakerInv'
    <2>1. PICK l \in {"done", "failed"} : pc' = [pc EXCEPT ![r] = l]
      BY <1>7 DEF CreateWrite, Goto
    <2>2. \/ WriteBack(r)
          \/ buf' = [buf EXCEPT ![r] = {}] /\ pins' = pins
      BY <1>7 DEF CreateWrite, FailWriteBack
    <2> QED BY <1>7, <2>1, <2>2, MakerWritten DEF CreateWrite, Writing, Made
  <1>8. ASSUME NEW r \in Validators, ValidateRead(r) PROVE MakerInv'
    <2>1. PICK l \in {"failed", "done", "clean", "old"} : pc' = [pc EXCEPT ![r] = l]
      BY <1>8 DEF ValidateRead, Goto
    <2>2. CASE told' = told
      <3>1. \A q \in Requests : pc'[q] = pc[q] \/ (pc[q] \notin Made /\ pc'[q] \notin Writing
                                                   /\ (q \in Setters => pc'[q] \in Made))
        BY <1>0, <1>8, <2>1 DEF ValidateRead, Made, Writing
      <3> QED BY <1>0, <1>8, <2>2, <3>1, MakerFrame DEF ValidateRead
    <2>3. CASE told' # told
      <3>1. pins # NoDoc
        BY <1>8, <2>3 DEF ValidateRead
      <3>2. /\ verdict' = [verdict EXCEPT ![r] = Judge(pins, CodeOf[r])]
            /\ told' = [told EXCEPT ![r] = IF verdict'[r] = "expired"
                                           THEN Matching(pins, CodeOf[r]) ELSE {}]
        BY <1>8, <2>3 DEF ValidateRead
      <3>3. l \in Control /\ l \notin Writing /\ pc[r] \notin Made
        BY <1>8, <2>1 DEF ValidateRead, Control, Writing, Made
      <3>4. UNCHANGED <<pins, buf, now>>
        BY <1>8 DEF ValidateRead
      <3> QED BY <2>1, <3>1, <3>2, <3>3, <3>4, MakerJudged
    <2> QED BY <2>2, <2>3
  <1>9. ASSUME NEW r \in Validators, CleanRead(r) PROVE MakerInv'
    <2>1. CASE Goto(r, "old") /\ UNCHANGED buf
      <3>1. \A q \in Requests : pc'[q] = pc[q] \/ (pc[q] \notin Made /\ pc'[q] \notin Writing
                                                   /\ (q \in Setters => pc'[q] \in Made))
        BY <1>0, <1>9, <2>1 DEF CleanRead, Goto, Made, Writing
      <3> QED BY <1>0, <1>9, <2>1, <3>1, MakerFrame DEF CleanRead
    <2>2. CASE Goto(r, "cleaning") /\ buf' = [buf EXCEPT ![r] = KeptByClean(pins)]
      <3>1. KeptByClean(pins) \in SUBSET pins /\ pins # NoDoc /\ pc[r] \notin Made
        BY <1>9 DEF CleanRead, KeptByClean, Live, PinTypeInv, DocThere, Made
      <3> QED BY <1>9, <2>2, <3>1, MakerTaken DEF CleanRead, Goto
    <2> QED BY <1>9, <2>1, <2>2 DEF CleanRead
  <1>10. ASSUME NEW r \in Validators, CleanWrite(r) PROVE MakerInv'
    <2>1. \/ WriteBack(r)
          \/ buf' = [buf EXCEPT ![r] = {}] /\ pins' = pins
      BY <1>10 DEF CleanWrite, FailWriteBack
    <2> QED BY <1>10, <2>1, MakerWritten DEF CleanWrite, Goto, Writing
  <1>11. ASSUME NEW r \in Validators, OldRead(r) PROVE MakerInv'
    <2>1. CASE Goto(r, "done") /\ UNCHANGED buf
      <3>1. \A q \in Requests : pc'[q] = pc[q] \/ (pc[q] \notin Made /\ pc'[q] \notin Writing
                                                   /\ (q \in Setters => pc'[q] \in Made))
        BY <1>0, <1>11, <2>1 DEF OldRead, Goto, Made, Writing
      <3> QED BY <1>0, <1>11, <2>1, <3>1, MakerFrame DEF OldRead
    <2>2. CASE Goto(r, "deleting") /\ buf' = [buf EXCEPT ![r] = Fresh(pins)]
      <3>1. Fresh(pins) \in SUBSET pins /\ pins # NoDoc /\ pc[r] \notin Made
        BY <1>11 DEF OldRead, Fresh, PinTypeInv, DocThere, Made
      <3> QED BY <1>11, <2>2, <3>1, MakerTaken DEF OldRead, Goto
    <2> QED BY <1>11, <2>1, <2>2 DEF OldRead
  <1>12. ASSUME NEW r \in Validators, OldWrite(r) PROVE MakerInv'
    <2>1. \/ WriteBack(r)
          \/ buf' = [buf EXCEPT ![r] = {}] /\ pins' = pins
      BY <1>12 DEF OldWrite, FailWriteBack
    <2> QED BY <1>12, <2>1, MakerWritten DEF OldWrite, Goto, Writing
  <1>13. CASE Tick
    BY <1>0, <1>13, MakerFrame DEF Tick
  <1> QED BY <1>1, <1>2, <1>3, <1>4, <1>5, <1>6, <1>7, <1>8, <1>9, <1>10, <1>11, <1>12, <1>13 DEF PinNext
-----------------------------------------------------------------------------
(* Where expired PINs are no more.  A validation that passed its first     *)
(* clean-up in peace has no PIN that it calls expired in the document, nor *)
(* in any array that is still to be written; during the clean-up, not in   *)
(* its own array.  The document can only become empty by the write of a    *)
(* validation, so that an array that others took before would expose it.   *)
Swept == {"old", "deleting", "done"}

Peace == exposed \cap Validators = {}

EmptyHeld == Peace /\ pins = {} => \A q \in Requests : pc[q] \in Writing => buf[q] = Own(q)

CleanedHeld == \A r \in Validators : pc[r] = "cleaning" => told[r] \cap buf[r] = {}

Gone == faults = 0 /\ Peace =>
  \A r \in Validators : pc[r] \in Swept =>
    told[r] \cap pins = {} /\ \A q \in Requests : pc[q] \in Writing => told[r] \cap buf[q] = {}

GoneInv == EmptyHeld /\ CleanedHeld /\ Gone

LEMMA GoneStart == PinInit => GoneInv
  BY ActorsApart DEF PinInit, GoneInv, EmptyHeld, CleanedHeld, Gone, Writing, Swept, Actors

(* A step that leaves the arrays alone, and lets nobody hold a new one.    *)
LEMMA GoneFrame ==
  ASSUME PinTypeInv, GoneInv, UNCHANGED <<pins, buf, told, exposed>>, faults' = 0 => faults = 0,
         \A q \in Requests : \/ pc'[q] = pc[q]
                             \/ /\ pc'[q] \notin Writing
                                /\ q \in Validators /\ pc'[q] \in Swept => pc[q] \in Swept \/ faults' # 0
  PROVE  GoneInv'
  <1>1. \A q \in Requests : Own(q)' = Own(q)
    BY DEF Own
  <1>2. Peace' = Peace
    BY DEF Peace
  <1>3. \A q \in Requests : pc'[q] \in Writing => pc'[q] = pc[q]
    OBVIOUS
  <1>4. EmptyHeld'
    BY <1>1, <1>2, <1>3 DEF GoneInv, EmptyHeld
  <1>5. CleanedHeld'
    BY <1>3, ActorsApart DEF GoneInv, CleanedHeld, Writing
  <1>6. Gone'
    BY <1>2, <1>3, ActorsApart DEF GoneInv, Gone
  <1> QED BY <1>4, <1>5, <1>6 DEF GoneInv

(* A validation answers about the PINs of the document.  It goes straight  *)
(* to the second clean-up only when it called none of them expired.        *)
LEMMA GoneJudged ==
  ASSUME PinTypeInv, GoneInv, NEW r \in Validators, pc[r] = "idle", UNCHANGED <<pins, buf, exposed, faults>>,
         NEW t, told' = [told EXCEPT ![r] = t],
         NEW l, l \notin Writing, pc' = [pc EXCEPT ![r] = l], l \in Swept => t = {}
  PROVE  GoneInv'
  <1>1. /\ r \in Requests /\ told'[r] = t /\ pc'[r] = l
        /\ \A q \in Requests \ {r} : pc'[q] = pc[q]
        /\ \A s \in Validators \ {r} : told'[s] = told[s]
    BY ActorsApart DEF PinTypeInv, PinTypeOK
  <1>2. Peace' = Peace /\ \A q \in Requests : Own(q)' = Own(q)
    BY DEF Own, Peace
  <1>3. EmptyHeld'
    BY <1>1, <1>2 DEF GoneInv, EmptyHeld
  <1>4. CleanedHeld'
    BY <1>1, ActorsApart DEF GoneInv, CleanedHeld, Writing
  <1>5. Gone'
    <2>1. SUFFICES ASSUME faults = 0, Peace, NEW s \in Validators, pc'[s] \in Swept
                   PROVE  /\ told'[s] \cap pins = {}
                          /\ \A q \in Requests : pc'[q] \in Writing => told'[s] \cap buf[q] = {}
      BY <1>2 DEF Gone
    <2>2. CASE s = r
      BY <1>1, <2>1, <2>2
    <2>3. CASE s # r
      BY <1>1, <2>1, <2>3, ActorsApart DEF GoneInv, Gone
    <2> QED BY <2>2, <2>3
  <1> QED BY <1>3, <1>4, <1>5 DEF GoneInv

(* A request takes PINs that are there; a creation adds its own, which no  *)
(* validation can have called expired yet.                                 *)
LEMMA GoneTaken ==
  ASSUME PinTypeInv, MakerInv, GoneInv, NEW r \in Requests, UNCHANGED <<pins, told, exposed, faults>>,
         NEW ps, buf' = [buf EXCEPT ![r] = ps], pc[r] \notin Made, pins # NoDoc,
         \A p \in ps : p \in pins \/ p.by = r,
         NEW l, pc' = [pc EXCEPT ![r] = l], l \in Swept => pc[r] \in Swept,
         r \in Validators /\ l = "cleaning" => told[r] \cap ps = {}
  PROVE  GoneInv'
  <1>1. /\ buf'[r] = ps /\ pc'[r] = l
        /\ \A q \in Requests \ {r} : buf'[q] = buf[q] /\ pc'[q] = pc[q] /\ Own(q)' = Own(q)
    BY ActorsApart DEF PinTypeInv, PinTypeOK, Own
  <1>2. Peace' = Peace /\ Own(r)' = {p \in ps : p.by = r}
    BY <1>1 DEF Own, Peace
  <1>3. EmptyHeld'
    BY <1>1, <1>2 DEF GoneInv, EmptyHeld
  <1>4. CleanedHeld'
    BY <1>1, ActorsApart DEF GoneInv, CleanedHeld
  <1>5. Gone'
    <2>1. SUFFICES ASSUME faults = 0, Peace, NEW s \in Validators, pc'[s] \in Swept
                   PROVE  /\ told[s] \cap pins = {}
                          /\ \A q \in Requests : pc'[q] \in Writing => told[s] \cap buf'[q] = {}
      BY <1>2 DEF Gone
    <2>2. pc[s] \in Swept
      BY <1>1, <2>1, ActorsApart
    <2>3. told[s] \cap pins = {} /\ \A q \in Requests : pc[q] \in Writing => told[s] \cap buf[q] = {}
      BY <2>1, <2>2 DEF GoneInv, Gone
    <2>4. \A p \in told[s] : p.by # r
      BY DEF MakerInv, ToldExpired
    <2>5. told[s] \cap ps = {}
      BY <2>3, <2>4
    <2> QED BY <1>1, <2>3, <2>5
  <1> QED BY <1>3, <1>4, <1>5 DEF GoneInv

(* A request writes what it holds, or fails to.                            *)
LEMMA GoneWritten ==
  ASSUME PinTypeInv, MakerInv, GoneInv, NEW r \in Creators \cup Validators,
         r \in Creators => pc[r] = "create", r \in Validators => pc[r] \in {"cleaning", "deleting"},
         NEW l, l \notin Writing, pc' = [pc EXCEPT ![r] = l], told' = told,
         \/ WriteBack(r) /\ (faults' = 0 => faults = 0)
         \/ buf' = [buf EXCEPT ![r] = {}] /\ UNCHANGED <<pins, exposed>> /\ faults' # 0
  PROVE  GoneInv'
  <1>1. r \in Requests /\ pc[r] \in Writing
    BY ActorsApart DEF Writing
  <1>2. /\ pc'[r] = l
        /\ \A q \in Requests \ {r} : pc'[q] = pc[q] /\ buf'[q] = buf[q] /\ Own(q)' = Own(q)
    BY <1>1, ActorsApart DEF PinTypeInv, PinTypeOK, WriteBack, Own
  <1>3. /\ Peace' => Peace
        /\ Peace' /\ WriteBack(r) /\ r \in Validators =>
             \A q \in Requests : pc'[q] \notin Writing
    BY <1>2 DEF Peace, WriteBack, Holding
  <1>4. EmptyHeld'
    <2>1. CASE WriteBack(r) /\ r \in Creators
      BY <2>1 DEF EmptyHeld, WriteBack, MakerInv, MakersDone, Own
    <2>2. CASE WriteBack(r) /\ r \in Validators
      BY <1>3, <2>2 DEF EmptyHeld
    <2>3. CASE UNCHANGED pins
      BY <1>2, <1>3, <2>3 DEF GoneInv, EmptyHeld
    <2> QED BY <2>1, <2>2, <2>3
  <1>5. CleanedHeld'
    BY <1>1, <1>2, ActorsApart DEF GoneInv, CleanedHeld, Writing
  <1>6. Gone'
    <2>1. SUFFICES ASSUME faults' = 0, Peace', NEW s \in Validators, pc'[s] \in Swept
                   PROVE  /\ told[s] \cap pins' = {}
                          /\ \A q \in Requests : pc'[q] \in Writing => told[s] \cap buf'[q] = {}
      BY DEF Gone
    <2>2. WriteBack(r) /\ faults = 0 /\ Peace /\ pins' = buf[r]
      BY <1>3, <2>1 DEF WriteBack
    <2>3. CASE s = r
      <3>1. told[s] \cap buf[r] = {}
        BY <1>1, <2>1, <2>2, <2>3 DEF GoneInv, CleanedHeld, Gone, Swept
      <3> QED BY <1>3, <2>1, <2>2, <2>3, <3>1
    <2>4. CASE s # r
      <3>1. pc[s] \in Swept
        BY <1>2, <2>1, <2>4, ActorsApart
      <3>2. \A q \in Requests : pc[q] \in Writing => told[s] \cap buf[q] = {}
        BY <2>1, <2>2, <3>1 DEF GoneInv, Gone
      <3> QED BY <1>1, <1>2, <2>2, <3>2
    <2> QED BY <2>3, <2>4
  <1> QED BY <1>4, <1>5, <1>6 DEF GoneInv

LEMMA GoneStep == PinTypeInv /\ MakerInv /\ GoneInv /\ [PinNext]_vars => GoneInv'
  <1> SUFFICES ASSUME PinTypeInv, MakerInv, GoneInv, [PinNext]_vars PROVE GoneInv'
    OBVIOUS
  <1> USE ActorsApart
  <1>0. pc \in [Actors -> Control] /\ faults \in Nat
    BY TimeAssumption DEF PinTypeInv, PinTypeOK
  <1>1. CASE UNCHANGED vars
    BY <1>1, GoneFrame DEF vars
  <1>2. ASSUME NEW b \in Boots, BootLook(b) PROVE GoneInv'
    <2>1. \A q \in Requests : pc'[q] = pc[q]
      BY <1>0, <1>2 DEF BootLook, Goto
    <2> QED BY <1>0, <1>2, <2>1, GoneFrame DEF BootLook, Fault, NoFault
  <1>3. ASSUME NEW b \in Boots, BootCreate(b) PROVE GoneInv'
    <2>1. \A q \in Requests : pc'[q] = pc[q]
      BY <1>0, <1>3 DEF BootCreate, Goto
    <2>2. CASE pins # NoDoc
      BY <1>3, <2>1, <2>2, GoneFrame DEF BootCreate, Created
    <2>3. CASE pins = NoDoc
      <3>1. \A q \in Requests : pc'[q] \notin Writing
        BY <2>1, <2>3 DEF PinTypeInv, DocThere, MakerInv, MakersDone, Writing, Requests
      <3>2. \A r \in Validators : pc'[r] \notin Swept
        BY <2>1, <2>3 DEF PinTypeInv, DocThere, Swept
      <3> QED BY <3>1, <3>2 DEF GoneInv, EmptyHeld, CleanedHeld, Gone, Writing
    <2> QED BY <2>2, <2>3
  <1>4. ASSUME NEW b \in Boots, BootGlobal(b) PROVE GoneInv'
    BY <1>4, GoneFrame DEF BootGlobal
  <1>5. ASSUME NEW r \in Setters, UpdateSecurityPin(r) PROVE GoneInv'
    <2>1. \A q \in Requests : pc'[q] = pc[q] \/ (q = r /\ pc'[q] \notin Writing)
      BY <1>0, <1>5 DEF UpdateSecurityPin, Goto, Writing
    <2> QED BY <1>0, <1>5, <2>1, GoneFrame DEF UpdateSecurityPin, Fault, NoFault
  <1>6. ASSUME NEW r \in Creators, CreateRead(r) PROVE GoneInv'
    <2>1. CASE pc' = [pc EXCEPT ![r] = "failed"] /\ UNCHANGED buf
      <3>1. \A q \in Requests : pc'[q] = pc[q] \/ (pc'[q] \notin Writing /\ q \notin Validators)
        BY <1>0, <1>6, <2>1 DEF Writing
      <3> QED BY <1>0, <1>6, <2>1, <3>1, GoneFrame DEF CreateRead, Fault, NoFault
    <2>2. ASSUME pins # NoDoc, NoFault, Goto(r, "create"), NEW e,
                 buf' = [buf EXCEPT ![r] = pins \cup {NewPin(r, e)}]
          PROVE  GoneInv'
      <3>1. \A p \in pins \cup {NewPin(r, e)} : p \in pins \/ p.by = r
        BY DEF NewPin
      <3>2. pc[r] \notin Made /\ UNCHANGED <<pins, told, exposed, faults>>
        BY <1>6, <2>2 DEF CreateRead, Made, NoFault
      <3> QED BY <2>2, <3>1, <3>2, GoneTaken DEF Goto, Swept
    <2> QED BY <1>6, <2>1, <2>2 DEF CreateRead, Goto
  <1>7. ASSUME NEW r \in Creators, CreateWrite(r) PROVE GoneInv'
    <2>1. PICK l \in {"done", "failed"} : pc' = [pc EXCEPT ![r] = l]
      BY <1>7 DEF CreateWrite, Goto
    <2>2. \/ WriteBack(r) /\ (faults' = 0 => faults = 0)
          \/ buf' = [buf EXCEPT ![r] = {}] /\ UNCHANGED <<pins, exposed>> /\ faults' # 0
      BY <1>0, <1>7 DEF CreateWrite, FailWriteBack, Fault, NoFault
    <2> QED BY <1>7, <2>1, <2>2, GoneWritten DEF CreateWrite, Writing
  <1>8. ASSUME NEW r \in Validators, ValidateRead(r) PROVE GoneInv'
    <2>1. CASE Goto(r, "failed") /\ UNCHANGED told
      <3>1. \A q \in Requests : pc'[q] = pc[q] \/ (pc'[q] \notin Writing /\ pc'[q] \notin Swept)
        BY <1>0, <2>1 DEF Goto, Writing, Swept
      <3> QED BY <1>0, <1>8, <2>1, <3>1, GoneFrame DEF ValidateRead, Fault, NoFault
    <2>2. CASE /\ NoFault
               /\ verdict' = [verdict EXCEPT ![r] = Judge(pins, CodeOf[r])]
               /\ told' = [told EXCEPT ![r] = IF verdict'[r] = "expired"
                                              THEN Matching(pins, CodeOf[r]) ELSE {}]
               /\ Goto(r, IF pins = {} THEN "done"
                          ELSE IF Live(pins) # pins THEN "clean" ELSE "old")
      <3> DEFINE t == IF verdict'[r] = "expired" THEN Matching(pins, CodeOf[r]) ELSE {}
                 l == IF pins = {} THEN "done" ELSE IF Live(pins) # pins THEN "clean" ELSE "old"
      <3>1. l \in Swept => t = {}
        <4>1. verdict'[r] = Judge(pins, CodeOf[r])
          BY <2>2 DEF PinTypeInv, PinTypeOK
        <4>2. CASE pins = {}
          BY <4>2 DEF Matching
        <4>3. CASE Live(pins) = pins
          BY <4>1, <4>3 DEF Judge
        <4>4. CASE pins # {} /\ Live(pins) # pins
          BY <4>4 DEF Swept
        <4> QED BY <4>2, <4>3, <4>4
      <3>2. l \notin Writing /\ pc[r] = "idle" /\ UNCHANGED <<pins, buf, exposed, faults>>
        BY <1>8, <2>2 DEF ValidateRead, NoFault, Writing
      <3>3. told' = [told EXCEPT ![r] = t] /\ pc' = [pc EXCEPT ![r] = l]
        BY <2>2 DEF Goto
      <3> HIDE DEF t, l
      <3> QED BY <3>1, <3>2, <3>3, GoneJudged
    <2> QED BY <1>8, <2>1, <2>2 DEF ValidateRead
  <1>9. ASSUME NEW r \in Validators, CleanRead(r) PROVE GoneInv'
    <2>1. CASE pins = {} /\ NoFault /\ Goto(r, "old") /\ UNCHANGED buf
      <3>1. /\ pc'[r] = "old" /\ \A q \in Requests \ {r} : pc'[q] = pc[q]
            /\ \A q \in Requests : Own(q)' = Own(q)
        BY <1>0, <2>1 DEF Goto, Own
      <3>2. Peace' = Peace /\ faults' = faults /\ pins' = {} /\ buf' = buf /\ told' = told
        BY <1>9, <2>1 DEF CleanRead, NoFault, Peace
      <3>3. EmptyHeld'
        BY <2>1, <3>1, <3>2 DEF GoneInv, EmptyHeld, Writing
      <3>4. CleanedHeld'
        BY <3>1, <3>2 DEF GoneInv, CleanedHeld
      <3>5. Gone'
        <4>1. SUFFICES ASSUME Peace, NEW s \in Validators, NEW q \in Requests, pc'[q] \in Writing
                       PROVE  told[s] \cap buf[q] = {}
          BY <3>2 DEF Gone
        <4>2. pc[q] \in Writing /\ pc[q] \notin Made /\ buf[q] = Own(q)
          BY <2>1, <3>1, <4>1 DEF GoneInv, EmptyHeld, Writing, Made
        <4>3. \A p \in told[s] : p.by # q
          BY <4>2 DEF MakerInv, ToldExpired
        <4> QED BY <4>2, <4>3 DEF Own
      <3> QED BY <3>3, <3>4, <3>5 DEF GoneInv
    <2>2. CASE Fault /\ Goto(r, "old") /\ UNCHANGED buf
      <3>1. faults' # 0 /\ \A q \in Requests : pc'[q] = pc[q] \/ pc'[q] \notin Writing
        BY <1>0, <2>2 DEF Goto, Writing, Fault
      <3> QED BY <1>9, <2>2, <3>1, GoneFrame DEF CleanRead
    <2>3. CASE pins # {} /\ NoFault /\ Goto(r, "cleaning") /\ buf' = [buf EXCEPT ![r] = KeptByClean(pins)]
      <3>1. pins # NoDoc /\ pc[r] \notin Made /\ UNCHANGED <<pins, told, exposed, faults>>
        BY <1>9, <2>3 DEF CleanRead, PinTypeInv, DocThere, Made, NoFault
      <3>2. \A p \in KeptByClean(pins) : p \in pins /\ p.exp > now
        BY DEF KeptByClean, Live
      <3>3. told[r] \cap KeptByClean(pins) = {}
        <4>1. \A p \in told[r] : p.exp <= now /\ p.exp \in Nat /\ now \in Nat
          BY TimeAssumption DEF MakerInv, ToldExpired, PinTypeInv, PinTypeOK, Pin
        <4> QED BY <3>2, <4>1
      <3> QED BY <2>3, <3>1, <3>2, <3>3, GoneTaken DEF Goto, Swept
    <2> QED BY <1>9, <2>1, <2>2, <2>3 DEF CleanRead
  <1>10. ASSUME NEW r \in Validators, CleanWrite(r) PROVE GoneInv'
    <2>1. \/ WriteBack(r) /\ (faults' = 0 => faults = 0)
          \/ buf' = [buf EXCEPT ![r] = {}] /\ UNCHANGED <<pins, exposed>> /\ faults' # 0
      BY <1>0, <1>10 DEF CleanWrite, FailWriteBack, Fault, NoFault
    <2> QED BY <1>10, <2>1, GoneWritten DEF CleanWrite, Goto, Writing
  <1>11. ASSUME NEW r \in Validators, OldRead(r) PROVE GoneInv'
    <2>1. CASE Goto(r, "done") /\ UNCHANGED buf
      <3>1. \A q \in Requests : pc'[q] = pc[q] \/ (pc'[q] \notin Writing /\ pc[q] \in Swept)
        BY <1>0, <1>11, <2>1 DEF OldRead, Goto, Writing, Swept
      <3> QED BY <1>0, <1>11, <2>1, <3>1, GoneFrame DEF OldRead, Fault, NoFault
    <2>2. CASE NoFault /\ Goto(r, "deleting") /\ buf' = [buf EXCEPT ![r] = Fresh(pins)]
      <3>1. /\ pins # NoDoc /\ pc[r] \notin Made /\ pc[r] \in Swept
            /\ UNCHANGED <<pins, told, exposed, faults>>
        BY <1>11, <2>2 DEF OldRead, PinTypeInv, DocThere, Made, Swept, NoFault
      <3>2. \A p \in Fresh(pins) : p \in pins
        BY DEF Fresh
      <3> QED BY <2>2, <3>1, <3>2, GoneTaken DEF Goto
    <2> QED BY <1>11, <2>1, <2>2 DEF OldRead
  <1>12. ASSUME NEW r \in Validators, OldWrite(r) PROVE GoneInv'
    <2>1. \/ WriteBack(r) /\ (faults' = 0 => faults = 0)
          \/ buf' = [buf EXCEPT ![r] = {}] /\ UNCHANGED <<pins, exposed>> /\ faults' # 0
      BY <1>0, <1>12 DEF OldWrite, FailWriteBack, Fault, NoFault
    <2> QED BY <1>12, <2>1, GoneWritten DEF OldWrite, Goto, Writing
  <1>13. CASE Tick
    BY <1>13, GoneFrame DEF Tick
  <1> QED BY <1>1, <1>2, <1>3, <1>4, <1>5, <1>6, <1>7, <1>8, <1>9, <1>10, <1>11, <1>12, <1>13 DEF PinNext

(* The PINs that a validation calls expired are gone when it answers, and  *)
(* never come back, unless a call failed or a validation wrote while       *)
(* another request held an older array.                                    *)
THEOREM ExpiredPinsLeave == PinSpec => []ExpiredPinsGo
  <1>1. PinSpec => []PinTypeInv
    BY PinTypeStart, PinTypeStep, PTL DEF PinSpec
  <1>2. PinSpec => []MakerInv
    BY <1>1, MakerStart, MakerStep, PTL DEF PinSpec
  <1>3. PinSpec => []GoneInv
    BY <1>1, <1>2, GoneStart, GoneStep, PTL DEF PinSpec
  <1>4. GoneInv => ExpiredPinsGo
    BY DEF GoneInv, Gone, ExpiredPinsGo, Peace, Swept
  <1> QED BY <1>3, <1>4, PTL
-----------------------------------------------------------------------------
(* THE AUDIT TRAIL *)

(* The lists of endpoints are sequences, so that each has a first one of   *)
(* any that fit.                                                           *)
LEMMA SevenTuple ==
  ASSUME NEW x1, NEW x2, NEW x3, NEW x4, NEW x5, NEW x6, NEW x7
  PROVE  <<x1, x2, x3, x4, x5, x6, x7>> \in Seq({x1, x2, x3, x4, x5, x6, x7})
  OBVIOUS

LEMMA ThreeTuple ==
  ASSUME NEW x1, NEW x2, NEW x3
  PROVE  <<x1, x2, x3>> \in Seq({x1, x2, x3})
  OBVIOUS

LEMMA EndpointNumbers == DOMAIN Endpoints \subseteq Nat
  <1>1. PICK S : WorkspaceAuditConfig \in Seq(S)
    BY SevenTuple DEF WorkspaceAuditConfig
  <1>2. PICK T : ProfileAuditConfig \in Seq(T)
    BY ThreeTuple DEF ProfileAuditConfig
  <1>3. WorkspaceAuditConfig \in Seq(S \cup T) /\ ProfileAuditConfig \in Seq(S \cup T)
    BY <1>1, <1>2
  <1>4. Endpoints \in Seq(S \cup T)
    BY <1>3, ConcatProperties DEF Endpoints
  <1> QED BY <1>4

LEMMA LeastNumber ==
  ASSUME NEW S \in SUBSET Nat, S # {}
  PROVE  \E m \in S : \A n \in S : m <= n
  <1>1. \E m \in S : \A n \in S : ~ (<<n, m>> \in OpToRel(<, Nat))
    BY NatLessThanWellFounded, WFMin
  <1>2. \A m \in Nat, n \in Nat : n < m => <<n, m>> \in OpToRel(<, Nat)
    <2> SUFFICES ASSUME NEW m \in Nat, NEW n \in Nat, n < m PROVE <<n, m>> \in OpToRel(<, Nat)
      OBVIOUS
    <2> DEFINE p == <<n, m>>
    <2>1. p \in Nat \X Nat /\ p[1] < p[2]
      OBVIOUS
    <2> HIDE DEF p
    <2>2. p \in OpToRel(<, Nat)
      BY <2>1, Zenon DEF OpToRel
    <2> QED BY <2>2 DEF p
  <1>3. \E m \in S : \A n \in S : ~ (n < m)
    BY <1>1, <1>2, Zenon
  <1> QED BY <1>3

(* The first endpoint of some is one of them. *)
LEMMA FirstIsOne ==
  ASSUME NEW S \in SUBSET DOMAIN Endpoints, S # {}
  PROVE  \E i \in S : First(S) = Endpoints[i]
  <1>1. \E i \in S : \A j \in S : i <= j
    BY EndpointNumbers, LeastNumber
  <1> QED BY <1>1 DEF First

(* What is audited is recorded as an event of an endpoint that it fits,    *)
(* with details of one.                                                    *)
LEMMA EventFits ==
  ASSUME NEW url, ShouldAuditEndpoint(url)
  PROVE  \E i \in DOMAIN Endpoints : FitsCall(Endpoints[i], url) /\ EventType(url) = Endpoints[i].event
  <1> DEFINE S == {i \in DOMAIN Endpoints : FitsCall(Endpoints[i], url)}
  <1>1. S \in SUBSET DOMAIN Endpoints /\ S # {}
    BY DEF ShouldAuditEndpoint
  <1>2. PICK i \in S : First(S) = Endpoints[i]
    <2> HIDE DEF S
    <2> QED BY <1>1, FirstIsOne
  <1>3. EventType(url) = Endpoints[i].event
    BY <1>2 DEF EventType
  <1> QED BY <1>3

LEMMA DetailsExist ==
  ASSUME NEW url, ShouldAuditEndpoint(url)
  PROVE  \E i \in DOMAIN Endpoints : Details(url) = Endpoints[i].details
  <1> DEFINE S == {i \in DOMAIN Endpoints : FitsPath(Endpoints[i], url)}
  <1>1. S \in SUBSET DOMAIN Endpoints /\ S # {}
    BY DEF ShouldAuditEndpoint, FitsCall
  <1>2. PICK i \in S : First(S) = Endpoints[i]
    <2> HIDE DEF S
    <2> QED BY <1>1, FirstIsOne
  <1>3. Details(url) = Endpoints[i].details
    BY <1>2 DEF Details
  <1> QED BY <1>3
-----------------------------------------------------------------------------
(* Types.  A request leaves at most one record, when it passes the insert, *)
(* so there are no more records than requests, and a list has no more      *)
(* pages.                                                                  *)
Past == {"flag", "done", "dead"}

Recorded ==
  /\ \A x \in audits : stage[x.by].at \in Past
  /\ \A x, y \in audits : x.by = y.by => x = y

Doing(c) ==
  /\ stage[c].at \in {"handling", "tap", "insert", "flag"} =>
       CallerOf[c] # NoUser /\ stage[c].kind \in {"login", "operation"}
  /\ stage[c].at \in {"tap", "flag"} => stage[c].kind = "login"
  /\ stage[c].at \in {"handling", "insert"} /\ stage[c].kind = "operation" => ShouldAuditEndpoint(asked[c])
  /\ read[c].pages <= Cardinality(Calls)

AuditTypeInv == AuditTypeOK /\ Recorded /\ \A c \in Calls : Doing(c)

LEMMA RecordsFew ==
  ASSUME audits \subseteq Docs, Recorded
  PROVE  /\ IsFiniteSet(audits) /\ Cardinality(audits) <= Cardinality(Calls)
         /\ \A S \in SUBSET audits : IsFiniteSet(S) /\ Cardinality(S) \in Nat
                                     /\ Cardinality(S) <= Cardinality(Calls)
         /\ Cardinality(Calls) \in Nat
  <1> DEFINE M == {x.by : x \in audits}
             f == [c \in M |-> CHOOSE x \in audits : x.by = c]
  <1>1. M \subseteq Calls
    BY DEF Docs
  <1>2. IsFiniteSet(M) /\ Cardinality(M) <= Cardinality(Calls) /\ Cardinality(Calls) \in Nat
        /\ Cardinality(M) \in Nat
    <2> HIDE DEF M
    <2> QED BY <1>1, FS_Subset, FS_CardinalityType, AuditAssumption
  <1>3. \A x \in audits : x.by \in M /\ f[x.by] = x
    BY DEF Recorded
  <1>4. \A c \in M : f[c] \in audits
    OBVIOUS
  <1>5. f \in Surjection(M, audits)
    <2>1. f \in [M -> audits]
      BY <1>4
    <2>2. \A x \in audits : \E c \in M : f[c] = x
      BY <1>3
    <2> HIDE DEF f, M
    <2> QED BY <2>1, <2>2 DEF Surjection
  <1>6. IsFiniteSet(audits) /\ Cardinality(audits) <= Cardinality(M) /\ Cardinality(audits) \in Nat
    <2> HIDE DEF f, M
    <2> QED BY <1>2, <1>5, FS_Surjection, FS_CardinalityType
  <1>7. ASSUME NEW S \in SUBSET audits
        PROVE  IsFiniteSet(S) /\ Cardinality(S) \in Nat /\ Cardinality(S) <= Cardinality(audits)
    BY <1>6, FS_Subset, FS_CardinalityType
  <1> HIDE DEF f, M
  <1> QED BY <1>2, <1>6, <1>7

(* A list of n documents has no more than n pages, which hold them all.    *)
LEMMA PagesHold ==
  ASSUME NEW n \in Nat
  PROVE  PagesOf(n) \in Nat /\ PagesOf(n) <= n /\ PagesOf(n) * PageSize >= n
  BY AuditAssumption DEF PagesOf

LEMMA Moved ==
  ASSUME AuditTypeOK, NEW c \in Calls, NEW a \in Stages, Move(c, a)
  PROVE  /\ stage' \in [Calls -> [at : Stages, kind : Kinds, on : Servers]]
         /\ stage'[c].at = a /\ stage'[c].kind = stage[c].kind /\ stage'[c].on = stage[c].on
         /\ \A o \in Calls : o # c => stage'[o] = stage[o]
  <1>1. stage \in [Calls -> [at : Stages, kind : Kinds, on : Servers]]
    BY DEF AuditTypeOK
  <1>2. stage' = [stage EXCEPT ![c] = [stage[c] EXCEPT !.at = a]]
    BY <1>1 DEF Move
  <1>3. stage[c] \in [at : Stages, kind : Kinds, on : Servers]
    BY <1>1
  <1>4. [stage[c] EXCEPT !.at = a] \in [at : Stages, kind : Kinds, on : Servers]
    BY <1>3
  <1> QED BY <1>1, <1>2, <1>3, <1>4

LEMMA UserType == ASSUME NEW c \in Calls, CallerOf[c] # NoUser PROVE CallerOf[c] \in AuditUsers
  BY DEF AuditUsers

LEMMA Placed ==
  ASSUME AuditTypeOK, NEW c \in Calls
  PROVE  stage[c].on \in Servers /\ restarts[stage[c].on] \in Nat /\ hour \in Nat
  <1>1. stage[c] \in [at : Stages, kind : Kinds, on : Servers] /\ restarts \in [Servers -> 0 .. MaxRestarts]
        /\ hour \in 0 .. LastHour
    BY DEF AuditTypeOK
  <1> QED BY <1>1, AuditAssumption

LEMMA RecordTyped ==
  ASSUME AuditTypeOK, NEW c \in Calls, NEW u \in AuditUsers, NEW e \in Events, NEW a \in Actions,
         NEW t \in Types, NEW r \in Resources, NEW g \in Detailed
  PROVE  /\ Record(c, u, e, a, t, r, g) \in Docs
         /\ Record(c, u, e, a, t, r, g).by = c /\ Record(c, u, e, a, t, r, g).at = hour
  BY Placed DEF Record, Docs

(* What a tap records, and what a client registers. *)
LEMMA TapTyped ==
  ASSUME AuditTypeInv, NEW c \in Calls, stage[c].at = "insert"
  PROVE  TapRecord(c) \in Docs /\ TapRecord(c).by = c /\ TapRecord(c).at = hour
  <1>1. /\ AuditTypeOK /\ stage[c].kind \in {"login", "operation"} /\ CallerOf[c] \in AuditUsers /\ hour \in Nat
        /\ stage[c].on \in Servers /\ restarts[stage[c].on] \in Nat
        /\ stage[c].kind = "operation" => ShouldAuditEndpoint(asked[c])
    BY Placed, UserType DEF AuditTypeInv, Doing
  <1>2. CASE stage[c].kind = "login"
    <2> DEFINE e == "Login"
               a == "first_access"
               t == "profile/login"
               r == "user id"
               g == "empty"
    <2>1. e \in Events /\ a \in Actions /\ t \in Types /\ r \in Resources /\ g \in Detailed
      BY DEF Events, Actions, Detailed, Types, Resources
    <2>2. TapRecord(c) = Record(c, CallerOf[c], e, a, t, r, g)
      BY <1>2 DEF TapRecord
    <2> HIDE DEF e, a, t, r, g
    <2> QED BY <1>1, <2>1, <2>2, RecordTyped
  <1>3. CASE stage[c].kind = "operation"
    <2> DEFINE e == EventType(asked[c])
               a == MapMethodToAction(asked[c].method)
               t == ExtractResourceType(asked[c])
               r == ExtractResourceId(asked[c])
               g == Details(asked[c])
    <2>1. e \in Events /\ g \in Detailed
      BY <1>1, <1>3, EventFits, DetailsExist DEF Events, Detailed
    <2>2. a \in Actions
      BY DEF MapMethodToAction, Actions
    <2>3. t \in Types /\ r \in Resources
      BY DEF ExtractResourceType, ExtractResourceId, Types, Resources
    <2>4. TapRecord(c) = Record(c, CallerOf[c], e, a, t, r, g)
      BY <1>3 DEF TapRecord
    <2> HIDE DEF e, a, t, r, g
    <2> QED BY <1>1, <2>1, <2>2, <2>3, <2>4, RecordTyped
  <1> QED BY <1>1, <1>2, <1>3

LEMMA RegisterTyped ==
  ASSUME AuditTypeInv, NEW c \in Calls, CallerOf[c] # NoUser, NEW x,
         x = Record(c, CallerOf[c], "other", "other", "workspace", "workspace id", "resource")
  PROVE  x \in Docs /\ x.by = c /\ x.at = hour
  <1>1. /\ "other" \in Events /\ "other" \in Actions /\ "resource" \in Detailed
        /\ "workspace" \in Types /\ "workspace id" \in Resources
    BY DEF Events, Actions, Detailed, Types, Resources
  <1>2. AuditTypeOK /\ CallerOf[c] \in AuditUsers
    BY UserType DEF AuditTypeInv
  <1>3. /\ stage[c].on \in Servers /\ restarts[stage[c].on] \in Nat /\ hour \in Nat
    BY <1>2, Placed
  <1> QED BY <1>1, <1>2, <1>3 DEF Record, Docs

(* A record more, of a request that had none and gets past its insert.     *)
LEMMA AfterRecord ==
  ASSUME AuditTypeInv, NEW c \in Calls, NEW x \in Docs, x.by = c, x.at = hour, RegistrarEvento(x),
         stage[c].at \notin Past, stage'[c].at \in Past, \A o \in Calls : o # c => stage'[o] = stage[o]
  PROVE  /\ audits' \subseteq Docs /\ (\A y \in audits' : y.at <= hour) /\ Recorded'
         /\ rejects' \in 0 .. MaxRejects /\ rejects <= rejects'
         /\ audits \subseteq audits' /\ audits' \subseteq audits \cup {x}
  <1>1. audits \subseteq Docs /\ (\A y \in audits : y.at <= hour) /\ hour \in Nat /\ rejects \in 0 .. MaxRejects
        /\ Recorded
    BY AuditAssumption DEF AuditTypeInv, AuditTypeOK
  <1>2. rejects' \in 0 .. MaxRejects /\ rejects <= rejects'
    BY <1>1, AuditAssumption DEF RegistrarEvento, Reject
  <1>3. audits \subseteq audits' /\ audits' \subseteq audits \cup {x}
    BY DEF RegistrarEvento
  <1>4. \A y \in audits : y.by # c /\ y.by \in Calls
    BY <1>1 DEF Recorded, Docs
  <1>5. Recorded'
    BY <1>1, <1>3, <1>4 DEF Recorded
  <1> QED BY <1>1, <1>2, <1>3, <1>5

(* What a step of one request leaves of the others. *)
LEMMA DoingFrame ==
  ASSUME NEW o \in Calls, Doing(o), stage'[o] = stage[o], asked'[o] = asked[o], read'[o] = read[o]
  PROVE  Doing(o)'
  BY DEF Doing

LEMMA RecordedFrame ==
  ASSUME Recorded, audits' \subseteq audits, \A c \in Calls : stage[c].at \in Past => stage'[c].at \in Past,
         audits \subseteq Docs
  PROVE  Recorded'
  BY DEF Recorded, Docs

(* The moves that leave no record. *)
LEMMA MoveTyped ==
  ASSUME AuditTypeInv, NEW c \in Calls, NEW a \in Stages, Move(c, a), stage[c].at \notin Past \/ a \in Past,
         \A o \in Calls : o # c => asked'[o] = asked[o] /\ read'[o] = read[o],
         audits' \subseteq audits, Doing(c)'
  PROVE  Recorded' /\ \A o \in Calls : Doing(o)'
  <1>1. Recorded /\ audits \subseteq Docs /\ \A o \in Calls : Doing(o)
    BY DEF AuditTypeInv, AuditTypeOK
  <1>2. stage'[c].at = a /\ \A o \in Calls : o # c => stage'[o] = stage[o]
    BY Moved DEF AuditTypeInv
  <1>3. Recorded'
    BY <1>1, <1>2, RecordedFrame
  <1>4. ASSUME NEW o \in Calls, o # c PROVE Doing(o)'
    BY <1>1, <1>2, <1>4, DoingFrame
  <1> QED BY <1>3, <1>4

LEMMA AuditTypeStep == AuditTypeInv /\ [AuditNext]_auVars => AuditTypeInv'
  <1> SUFFICES ASSUME AuditTypeInv, [AuditNext]_auVars PROVE AuditTypeInv'
    OBVIOUS
  <1>1. /\ AuditTypeOK /\ Recorded /\ (\A c \in Calls : Doing(c)) /\ audits \subseteq Docs
        /\ (\A x \in audits : x.at <= hour) /\ hour \in Nat /\ hour \in 0 .. LastHour
        /\ cache \in [Servers -> [AuditUsers -> 0 .. LastHour + FlagLife]]
        /\ stage \in [Calls -> [at : Stages, kind : Kinds, on : Servers]]
        /\ asked \in [Calls -> Urls \cup {Nothing} \cup Lists] /\ read \in [Calls -> Reading]
        /\ restarts \in [Servers -> 0 .. MaxRestarts] /\ together \subseteq Calls /\ purged \in BOOLEAN
        /\ rejects \in 0 .. MaxRejects
        /\ \A c \in Calls : /\ read[c].seen \subseteq audits \/ purged
                            /\ read[c].page \in 1 .. Cardinality(Calls) + 1
    BY AuditAssumption DEF AuditTypeInv, AuditTypeOK
  (* The steps that move one request and touch neither records nor lists. *)
  <1>2. ASSUME NEW c \in Calls, NEW a \in Stages, Move(c, a), stage[c].at \notin Past \/ a \in Past,
               asked' \in [Calls -> Urls \cup {Nothing} \cup Lists],
               \A o \in Calls : o # c => asked'[o] = asked[o],
               Doing(c)', cache' \in [Servers -> [AuditUsers -> 0 .. LastHour + FlagLife]],
               together' \subseteq Calls, UNCHANGED <<audits, hour, read, restarts, purged, rejects>>
        PROVE  AuditTypeInv'
    <2>1. Recorded' /\ \A o \in Calls : Doing(o)'
      BY <1>2, MoveTyped
    <2>2. stage' \in [Calls -> [at : Stages, kind : Kinds, on : Servers]]
      BY <1>1, <1>2, Moved
    <2>3. AuditTypeOK'
      BY <1>1, <1>2, <2>2 DEF AuditTypeOK
    <2> QED BY <2>1, <2>3 DEF AuditTypeInv
  <1>3. ASSUME NEW c \in Calls, Login(c) PROVE AuditTypeInv'
    <2>1. PICK s \in Servers : stage' = [stage EXCEPT ![c].at = "handling", ![c].on = s]
      BY <1>3 DEF Login
    <2>2. /\ stage' \in [Calls -> [at : Stages, kind : Kinds, on : Servers]]
          /\ stage'[c].at = "handling" /\ stage'[c].kind = stage[c].kind
          /\ \A o \in Calls : o # c => stage'[o] = stage[o]
      BY <1>1, <2>1 DEF Stages
    <2>3. /\ stage[c].at = "ready" /\ stage[c].kind = "login" /\ CallerOf[c] # NoUser
          /\ UNCHANGED <<audits, cache, hour, asked, read, restarts, together, purged, rejects>>
      BY <1>3 DEF Login, Ready
    <2>4. Recorded'
      BY <1>1, <2>2, <2>3, RecordedFrame DEF Past
    <2>5. Doing(c)'
      BY <1>1, <2>2, <2>3 DEF Doing
    <2>6. \A o \in Calls : o # c => Doing(o)'
      BY <1>1, <2>2, <2>3, DoingFrame
    <2>7. AuditTypeOK'
      BY <1>1, <2>2, <2>3 DEF AuditTypeOK
    <2> QED BY <2>4, <2>5, <2>6, <2>7 DEF AuditTypeInv
  <1>4. ASSUME NEW c \in Calls, Operate(c) PROVE AuditTypeInv'
    <2>1. PICK url \in Urls : /\ asked' = [asked EXCEPT ![c] = url]
                              /\ Move(c, IF CallerOf[c] # NoUser /\ ShouldAuditEndpoint(url)
                                         THEN "handling" ELSE "done")
      BY <1>4 DEF Operate
    <2> DEFINE a == IF CallerOf[c] # NoUser /\ ShouldAuditEndpoint(url) THEN "handling" ELSE "done"
    <2>2. a \in Stages /\ a \in {"handling", "done"}
          /\ (a = "handling" => CallerOf[c] # NoUser /\ ShouldAuditEndpoint(url))
      BY DEF Stages
    <2> HIDE DEF a
    <2>3. Move(c, a) /\ asked'[c] = url /\ asked' \in [Calls -> Urls \cup {Nothing} \cup Lists]
          /\ (\A o \in Calls : o # c => asked'[o] = asked[o])
      BY <1>1, <2>1 DEF a
    <2>4. /\ stage[c].at = "ready" /\ stage[c].kind = "operation"
          /\ UNCHANGED <<audits, cache, hour, read, restarts, together, purged, rejects>>
      BY <1>4 DEF Operate, Ready
    <2>5. Doing(c)'
      BY <1>1, <2>2, <2>3, <2>4, Moved DEF Doing
    <2> QED BY <1>1, <1>2, <2>2, <2>3, <2>4, <2>5 DEF Past
  <1>5. ASSUME NEW c \in Calls, Answered(c) PROVE AuditTypeInv'
    <2> DEFINE a == IF stage[c].kind = "login" THEN "tap" ELSE "insert"
    <2>1. PICK e \in {"done", a} : Move(c, e)
      BY <1>5 DEF Answered
    <2>2. /\ a \in Stages /\ "done" \in Stages /\ (a = "tap" => stage[c].kind = "login")
          /\ a \in {"tap", "insert"}
      BY DEF Stages
    <2> HIDE DEF a
    <2>3. /\ stage[c].at = "handling" /\ together' \subseteq Calls
          /\ UNCHANGED <<audits, cache, hour, asked, read, restarts, purged, rejects>>
      BY <1>1, <1>5 DEF Answered, Logins
    <2>4. e \in Stages /\ (e = "tap" => stage[c].kind = "login") /\ e \in {"done", "tap", "insert"}
      BY <2>1, <2>2
    <2>5. Doing(c)'
      BY <1>1, <2>1, <2>3, <2>4, Moved DEF Doing
    <2> QED BY <1>1, <1>2, <2>1, <2>3, <2>4, <2>5 DEF Past
  <1>6. ASSUME NEW c \in Calls, LookFlag(c) PROVE AuditTypeInv'
    <2>1. PICK e \in {"done", "insert"} : Move(c, e)
      BY <1>6 DEF LookFlag
    <2>2. /\ stage[c].at = "tap" /\ e \in Stages
          /\ UNCHANGED <<audits, cache, hour, asked, read, restarts, together, purged, rejects>>
      BY <1>6, <2>1 DEF LookFlag, Stages
    <2>3. Doing(c)'
      BY <1>1, <2>1, <2>2, Moved DEF Doing
    <2> QED BY <1>1, <1>2, <2>1, <2>2, <2>3 DEF Past
  (* The steps that leave a record. *)
  <1>7. ASSUME NEW c \in Calls, NEW x \in Docs, x.by = c, x.at = hour, RegistrarEvento(x),
               NEW a \in {"flag", "done"}, Move(c, a), stage[c].at \in {"insert", "ready"},
               a = "flag" => stage[c].kind = "login" /\ stage[c].at = "insert",
               UNCHANGED <<cache, hour, asked, read, restarts, together, purged>>
        PROVE  AuditTypeInv'
    <2>1. /\ stage' \in [Calls -> [at : Stages, kind : Kinds, on : Servers]]
          /\ stage'[c].at = a /\ stage'[c].kind = stage[c].kind
          /\ \A o \in Calls : o # c => stage'[o] = stage[o]
      BY <1>1, <1>7, Moved DEF Stages
    <2>2. /\ audits' \subseteq Docs /\ (\A y \in audits' : y.at <= hour) /\ Recorded'
          /\ rejects' \in 0 .. MaxRejects /\ audits \subseteq audits'
      BY <1>7, <2>1, AfterRecord DEF Past
    <2>3. Doing(c)'
      BY <1>1, <1>7, <2>1 DEF Doing
    <2>4. \A o \in Calls : o # c => Doing(o)'
      BY <1>1, <1>7, <2>1, DoingFrame
    <2>5. AuditTypeOK'
      BY <1>1, <1>7, <2>1, <2>2 DEF AuditTypeOK
    <2> QED BY <2>2, <2>3, <2>4, <2>5 DEF AuditTypeInv
  <1>8. ASSUME NEW c \in Calls, TapInsert(c) PROVE AuditTypeInv'
    <2>1. /\ stage[c].at = "insert" /\ RegistrarEvento(TapRecord(c)) /\ Move(c, AfterInsert(c))
          /\ UNCHANGED <<cache, hour, asked, read, restarts, together, purged>>
      BY <1>8 DEF TapInsert
    <2>2. AfterInsert(c) \in {"flag", "done"} /\ (AfterInsert(c) = "flag" => stage[c].kind = "login")
      BY DEF AfterInsert
    <2> QED BY <1>7, <2>1, <2>2, TapTyped
  <1>9. ASSUME NEW c \in Calls, RegisterEvent(c) PROVE AuditTypeInv'
    <2>1. PICK x : /\ x = Record(c, CallerOf[c], "other", "other", "workspace", "workspace id", "resource")
                   /\ RegistrarEvento(x)
      BY <1>9 DEF RegisterEvent
    <2>2. /\ stage[c].at = "ready" /\ CallerOf[c] # NoUser /\ Move(c, "done")
          /\ UNCHANGED <<cache, hour, asked, read, restarts, together, purged>>
      BY <1>9 DEF RegisterEvent, Ready
    <2>3. x \in Docs /\ x.by = c /\ x.at = hour
      BY <2>1, <2>2, RegisterTyped
    <2> QED BY <1>7, <2>1, <2>2, <2>3
  <1>10. ASSUME NEW c \in Calls, SetFlag(c) PROVE AuditTypeInv'
    <2>1. /\ stage[c].at = "flag" /\ Move(c, "done") /\ "done" \in Stages
          /\ UNCHANGED <<audits, hour, asked, read, restarts, together, purged, rejects>>
      BY <1>10 DEF SetFlag, Stages
    <2>2. cache' \in [Servers -> [AuditUsers -> 0 .. LastHour + FlagLife]]
      <3>1. hour + FlagLife \in 0 .. LastHour + FlagLife
        BY <1>1, AuditAssumption
      <3> QED BY <1>1, <1>10, <3>1 DEF SetFlag
    <2>3. Doing(c)'
      BY <1>1, <2>1, Moved DEF Doing
    <2> QED BY <1>1, <1>2, <2>1, <2>2, <2>3 DEF Past
  <1>11. ASSUME NEW c \in Calls, EliminarRegistrosUsuario(c) PROVE AuditTypeInv'
    <2>1. /\ stage[c].at = "ready" /\ Move(c, "done") /\ "done" \in Stages
          /\ UNCHANGED <<cache, hour, asked, read, restarts, together>>
          /\ purged' = (purged \/ audits' # audits)
      BY <1>11 DEF EliminarRegistrosUsuario, Ready, Stages
    <2>2. audits' \subseteq audits /\ rejects' \in 0 .. MaxRejects
      BY <1>1, <1>11, AuditAssumption DEF EliminarRegistrosUsuario, Reject
    <2>3. Doing(c)'
      BY <1>1, <2>1, Moved DEF Doing
    <2>4. Recorded' /\ \A o \in Calls : Doing(o)'
      BY <2>1, <2>2, <2>3, MoveTyped DEF Past
    <2>5. stage' \in [Calls -> [at : Stages, kind : Kinds, on : Servers]]
      BY <1>1, <2>1, Moved
    <2>6. purged' \in BOOLEAN /\ \A o \in Calls : read[o].seen \subseteq audits' \/ purged'
      BY <1>1, <2>1
    <2>7. AuditTypeOK'
      BY <1>1, <2>1, <2>2, <2>5, <2>6 DEF AuditTypeOK
    <2> QED BY <2>4, <2>7 DEF AuditTypeInv
  (* The steps of a list. *)
  <1>12. ASSUME NEW c \in Calls, NEW a \in {"count", "find", "done"}, Move(c, a),
                stage[c].at \in {"ready", "count", "find"}, NEW b \in Reading, read' = [read EXCEPT ![c] = b],
                b.page \in 1 .. Cardinality(Calls) + 1, b.pages <= Cardinality(Calls),
                b.seen \subseteq audits \/ purged,
                asked' \in [Calls -> Urls \cup {Nothing} \cup Lists],
                \A o \in Calls : o # c => asked'[o] = asked[o],
                UNCHANGED <<audits, cache, hour, restarts, together, purged, rejects>>
         PROVE  AuditTypeInv'
    <2>1. /\ stage' \in [Calls -> [at : Stages, kind : Kinds, on : Servers]]
          /\ stage'[c].at = a /\ a \in Stages
      BY <1>1, <1>12, Moved DEF Stages
    <2>2. read' \in [Calls -> Reading] /\ read'[c] = b /\ \A o \in Calls : o # c => read'[o] = read[o]
      BY <1>1, <1>12
    <2>3. Doing(c)'
      BY <1>12, <2>1, <2>2 DEF Doing
    <2>4. Recorded' /\ \A o \in Calls : Doing(o)'
      BY <1>12, <2>1, <2>2, <2>3, MoveTyped DEF Past
    <2>5. \A o \in Calls : /\ read'[o].seen \subseteq audits \/ purged
                           /\ read'[o].page \in 1 .. Cardinality(Calls) + 1
      BY <1>1, <1>12, <2>2
    <2>6. AuditTypeOK'
      BY <1>1, <1>12, <2>1, <2>2, <2>5 DEF AuditTypeOK
    <2> QED BY <2>4, <2>6 DEF AuditTypeInv
  <1>13. \A list : AuditFilter(list) \in SUBSET Docs /\ AuditFilter(list) \subseteq audits
    BY <1>1 DEF AuditFilter
  <1>14. \A list : /\ PagesOf(Cardinality(AuditFilter(list))) \in Nat
                   /\ PagesOf(Cardinality(AuditFilter(list))) <= Cardinality(Calls)
    <2> TAKE list
    <2>1. Cardinality(AuditFilter(list)) \in Nat /\ Cardinality(AuditFilter(list)) <= Cardinality(Calls)
          /\ Cardinality(Calls) \in Nat
      BY <1>1, <1>13, RecordsFew
    <2> QED BY <2>1, PagesHold
  <1>15. ASSUME NEW c \in Calls, StartList(c) PROVE AuditTypeInv'
    <2>1. PICK u \in {AnyUser} \cup AuditUsers, from \in {0, hour} :
            /\ asked' = [asked EXCEPT ![c] = [user |-> u, from |-> from, to |-> LastHour]]
            /\ read' = [read EXCEPT ![c].before = AuditFilter([user |-> u, from |-> from, to |-> LastHour])]
      BY <1>15 DEF StartList
    <2> DEFINE list == [user |-> u, from |-> from, to |-> LastHour]
    <2>2. list \in Lists
      BY <1>1, AuditAssumption DEF Lists
    <2> HIDE DEF list
    <2>3. asked' = [asked EXCEPT ![c] = list] /\ read' = [read EXCEPT ![c].before = AuditFilter(list)]
      BY <2>1 DEF list
    <2>4. asked' \in [Calls -> Urls \cup {Nothing} \cup Lists] /\ \A o \in Calls : o # c => asked'[o] = asked[o]
      BY <1>1, <2>2, <2>3
    <2> DEFINE b == [read[c] EXCEPT !.before = AuditFilter(list)]
    <2>5. b \in Reading /\ b.page = read[c].page /\ b.pages = read[c].pages /\ b.seen = read[c].seen
      BY <1>1, <1>13 DEF Reading
    <2>6. read' = [read EXCEPT ![c] = b]
      BY <1>1, <2>3
    <2> HIDE DEF b
    <2>7. /\ stage[c].at = "ready" /\ UNCHANGED <<audits, cache, hour, restarts, together, purged, rejects>>
          /\ \E a \in {"count", "find", "done"} : Move(c, a)
      BY <1>15 DEF StartList, Ready
    <2>8. read[c].pages <= Cardinality(Calls)
      BY <1>1 DEF Doing
    <2> QED BY <1>1, <1>12, <2>4, <2>5, <2>6, <2>7, <2>8
  <1>16. ASSUME NEW c \in Calls, Count(c) PROVE AuditTypeInv'
    <2> DEFINE docs == AuditFilter(asked[c])
               b == [read[c] EXCEPT !.pages = PagesOf(Cardinality(docs)), !.at = docs]
    <2>1. b \in Reading /\ b.page = read[c].page /\ b.pages <= Cardinality(Calls) /\ b.seen = read[c].seen
      BY <1>1, <1>13, <1>14 DEF Reading
    <2>2. read' = [read EXCEPT ![c] = b]
      BY <1>1, <1>16 DEF Count
    <2> HIDE DEF b
    <2>3. /\ stage[c].at = "count" /\ Move(c, "find")
          /\ UNCHANGED <<audits, cache, hour, asked, restarts, together, purged, rejects>>
      BY <1>16 DEF Count
    <2> QED BY <1>1, <1>12, <2>1, <2>2, <2>3
  <1>17. ASSUME NEW c \in Calls, Find(c) PROVE AuditTypeInv'
    <2> DEFINE docs == AuditFilter(asked[c])
               pages == IF stage[c].kind = "search" THEN PagesOf(Cardinality(docs)) ELSE read[c].pages
               torn == read[c].torn \/ (stage[c].kind = "list" /\ docs # read[c].at)
    <2>1. PICK page \in PageAt(docs, Skip(read[c].page)) :
            /\ read' = [read EXCEPT ![c].seen = @ \cup page,
                                    ![c].page = IF read[c].page < pages THEN @ + 1 ELSE @,
                                    ![c].pages = pages,
                                    ![c].torn = @ \/ (stage[c].kind = "list" /\ docs # read[c].at)]
      BY <1>17 DEF Find
    <2> HIDE DEF torn
    <2>2. pages \in Nat /\ pages <= Cardinality(Calls)
      BY <1>1, <1>14 DEF Doing, Reading
    <2>3. page \subseteq audits /\ page \subseteq Docs /\ read[c] \in Reading
      BY <1>1, <1>13 DEF PageAt
    <2>4. PICK t \in BOOLEAN : t = torn
      BY DEF torn
    <2> DEFINE next == IF read[c].page < pages THEN read[c].page + 1 ELSE read[c].page
               seen == read[c].seen \cup page
               b == [read[c] EXCEPT !.seen = seen, !.page = next, !.pages = pages, !.torn = t]
    <2>5. next \in 1 .. Cardinality(Calls) + 1 /\ next \in Nat /\ Cardinality(Calls) \in Nat
      <3> HIDE DEF pages
      <3> QED BY <1>1, <2>2, FS_CardinalityType, AuditAssumption
    <2>6. read' = [read EXCEPT ![c] = b]
      <3>1. read' = [read EXCEPT ![c] = [read[c] EXCEPT !.seen = seen, !.page = next, !.pages = pages, !.torn = torn]]
        BY <1>1, <2>1 DEF torn
      <3> QED BY <2>4, <3>1
    <2>7. seen \in SUBSET Docs /\ (seen \subseteq audits \/ purged)
      BY <1>1, <2>3 DEF Reading
    <2> HIDE DEF pages, next, docs, seen
    <2>8. b \in Reading /\ b.page = next /\ b.pages = pages /\ b.seen = seen
      <3>1. b = [read[c] EXCEPT !.seen = seen, !.page = next, !.pages = pages, !.torn = t]
        OBVIOUS
      <3> HIDE DEF b
      <3>2. read[c] \in Reading
        BY <2>3
      <3>3. next \in Nat
        BY <2>5
      <3>4. pages \in Nat
        BY <2>2
      <3>5. seen \in SUBSET Docs
        BY <2>7
      <3>6. b.page = next /\ b.pages = pages /\ b.seen = seen
        BY <3>1, <3>2 DEF Reading
      <3>7. CASE t = TRUE
        BY <3>1, <3>2, <3>3, <3>4, <3>5, <3>6, <3>7 DEF Reading
      <3>8. CASE t = FALSE
        BY <3>1, <3>2, <3>3, <3>4, <3>5, <3>6, <3>8 DEF Reading
      <3> QED BY <3>6, <3>7, <3>8
    <2> HIDE DEF b
    <2>9. /\ stage[c].at = "find" /\ \E a \in {"count", "find", "done"} : Move(c, a)
          /\ UNCHANGED <<audits, cache, hour, asked, restarts, together, purged, rejects>>
      BY <1>17 DEF Find
    <2> QED BY <1>1, <1>12, <2>2, <2>5, <2>6, <2>7, <2>8, <2>9
  <1>18. ASSUME NEW s \in Servers, Restart(s) PROVE AuditTypeInv'
    <2>1. /\ restarts' \in [Servers -> 0 .. MaxRestarts]
          /\ cache' \in [Servers -> [AuditUsers -> 0 .. LastHour + FlagLife]]
          /\ UNCHANGED <<audits, hour, asked, read, together, purged, rejects>>
      BY <1>1, <1>18, AuditAssumption DEF Restart
    <2>2. /\ stage' \in [Calls -> [at : Stages, kind : Kinds, on : Servers]]
          /\ \A c \in Calls : /\ stage'[c].kind = stage[c].kind
                              /\ stage'[c].at = stage[c].at \/ stage'[c].at = "dead"
      BY <1>1, <1>18 DEF Restart, Stages
    <2>3. Recorded'
      BY <1>1, <2>1, <2>2, RecordedFrame DEF Past
    <2>4. \A c \in Calls : Doing(c)'
      BY <1>1, <2>1, <2>2 DEF Doing
    <2>5. AuditTypeOK'
      BY <1>1, <2>1, <2>2 DEF AuditTypeOK
    <2> QED BY <2>3, <2>4, <2>5 DEF AuditTypeInv
  <1>19. CASE PassHour
    <2>1. /\ hour' \in 0 .. LastHour /\ hour <= hour'
          /\ UNCHANGED <<audits, cache, stage, asked, read, restarts, together, purged, rejects>>
      BY <1>1, <1>19, AuditAssumption DEF PassHour
    <2>2. Recorded' /\ \A c \in Calls : Doing(c)'
      BY <1>1, <2>1 DEF Recorded, Doing
    <2>3. \A x \in audits : x.at <= hour'
      BY <1>1, <2>1 DEF Docs
    <2>4. AuditTypeOK'
      BY <1>1, <2>1, <2>3 DEF AuditTypeOK
    <2> QED BY <2>2, <2>4 DEF AuditTypeInv
  <1>20. CASE UNCHANGED auVars
    BY <1>20 DEF auVars, AuditTypeInv, AuditTypeOK, Recorded, Doing
  <1> QED
    BY <1>3, <1>4, <1>5, <1>6, <1>8, <1>9, <1>10, <1>11, <1>15, <1>16, <1>17, <1>18, <1>19, <1>20
    DEF AuditNext

LEMMA AuditTypeInit == AuditInit => AuditTypeInv
  <1> SUFFICES ASSUME AuditInit PROVE AuditTypeInv
    OBVIOUS
  <1> DEFINE first == CHOOSE s \in Servers : TRUE
  <1>1. first \in Servers
    BY AuditAssumption
  <1> HIDE DEF first
  <1>2. PICK mix \in Mixes : stage = [c \in Calls |-> [at |-> "ready", kind |-> mix[c], on |-> first]]
    BY DEF AuditInit, first
  <1>3. mix \in [Calls -> Kinds]
    BY MixAssumption
  <1>4. stage \in [Calls -> [at : Stages, kind : Kinds, on : Servers]] /\ \A c \in Calls : stage[c].at = "ready"
    BY <1>1, <1>2, <1>3 DEF Stages
  <1>5. /\ audits = {} /\ hour = 0 /\ rejects = 0 /\ together = {} /\ purged = FALSE
        /\ cache = [s \in Servers |-> [u \in AuditUsers |-> 0]] /\ restarts = [s \in Servers |-> 0]
        /\ asked = [c \in Calls |-> Nothing] /\ read = [c \in Calls |-> EmptyRead]
    BY DEF AuditInit
  <1>6. EmptyRead \in Reading /\ EmptyRead.page = 1 /\ EmptyRead.pages = 0 /\ EmptyRead.seen = {}
    BY DEF EmptyRead, Reading
  <1>7. Cardinality(Calls) \in Nat
    BY FS_CardinalityType, AuditAssumption
  <1>8. read \in [Calls -> Reading]
        /\ \A c \in Calls : read[c].page = 1 /\ read[c].pages = 0 /\ read[c].seen = {}
    BY <1>5, <1>6
  <1>9. AuditTypeOK
    <2>1. /\ cache \in [Servers -> [AuditUsers -> 0 .. LastHour + FlagLife]] /\ hour \in 0 .. LastHour
          /\ restarts \in [Servers -> 0 .. MaxRestarts] /\ rejects \in 0 .. MaxRejects
      BY <1>5, AuditAssumption
    <2>2. asked \in [Calls -> Urls \cup {Nothing} \cup Lists] /\ together \subseteq Calls /\ audits = {}
      BY <1>5
    <2>3. purged \in BOOLEAN
      BY <1>5
    <2>4. \A c \in Calls : read[c].seen \subseteq audits /\ read[c].page \in 1 .. Cardinality(Calls) + 1
      BY <1>7, <1>8
    <2> QED BY <1>4, <1>8, <2>1, <2>2, <2>3, <2>4 DEF AuditTypeOK
  <1>10. Recorded /\ \A c \in Calls : Doing(c)
    BY <1>4, <1>5, <1>7, <1>8 DEF Recorded, Doing
  <1> QED BY <1>9, <1>10 DEF AuditTypeInv

(* Every state of the audit trail is of its type; in particular no page is *)
(* asked for beyond the number of requests, and a client's pages hold only *)
(* records that are stored, until some are deleted.                        *)
THEOREM AuditTypesCorrect == AuditSpec => []AuditTypeOK
  <1>1. AuditTypeInv => AuditTypeOK
    BY DEF AuditTypeInv
  <1> QED BY AuditTypeInit, AuditTypeStep, <1>1, PTL DEF AuditSpec

LEMMA AuditTyped == AuditSpec => []AuditTypeInv
  BY AuditTypeInit, AuditTypeStep, PTL DEF AuditSpec
-----------------------------------------------------------------------------
(* What every step keeps: what a request is; after its start, where it is  *)
(* and what it asks; and each record is from before, of the tap that runs, *)
(* or registered by its client.                                            *)
AuditKept ==
  /\ \A c \in Calls : stage'[c].kind = stage[c].kind
  /\ \A c \in Calls : stage[c].at # "ready" => stage'[c].on = stage[c].on /\ asked'[c] = asked[c]
  /\ \A s \in Servers : restarts[s] <= restarts'[s]
  /\ \A x \in audits' : \/ x \in audits
                        \/ stage[x.by].at = "insert" /\ x = TapRecord(x.by) /\ TapInsert(x.by)
                        \/ stage[x.by].kind = "register" /\ x.action = "other"
  /\ ~purged' => ~purged /\ audits \subseteq audits'
  /\ rejects <= rejects'

LEMMA StepKeeps == ASSUME AuditTypeInv, [AuditNext]_auVars PROVE AuditKept
  <1>1. /\ AuditTypeOK /\ stage \in [Calls -> [at : Stages, kind : Kinds, on : Servers]]
        /\ restarts \in [Servers -> Nat] /\ rejects \in Nat
        /\ asked \in [Calls -> Urls \cup {Nothing} \cup Lists]
    BY AuditAssumption DEF AuditTypeInv, AuditTypeOK
  (* One request moves, and leaves what records there were. *)
  <1>2. ASSUME NEW c \in Calls, NEW a \in Stages, Move(c, a),
               \A o \in Calls : o # c \/ stage[o].at # "ready" => asked'[o] = asked[o],
               UNCHANGED <<restarts, purged, rejects, audits>>
        PROVE  AuditKept
    <2>1. \A o \in Calls : stage'[o].kind = stage[o].kind /\ stage'[o].on = stage[o].on
      BY <1>1, <1>2, Moved
    <2> QED BY <1>1, <1>2, <2>1 DEF AuditKept
  <1>3. ASSUME NEW c \in Calls, Login(c) PROVE AuditKept
    <2>1. PICK s \in Servers : stage' = [stage EXCEPT ![c].at = "handling", ![c].on = s]
      BY <1>3 DEF Login
    <2>2. stage[c].at = "ready" /\ UNCHANGED <<audits, asked, restarts, purged, rejects>>
      BY <1>3 DEF Login, Ready
    <2>3. /\ \A o \in Calls : stage'[o].kind = stage[o].kind
          /\ \A o \in Calls : o # c => stage'[o].on = stage[o].on
      BY <1>1, <2>1
    <2> QED BY <1>1, <2>2, <2>3 DEF AuditKept
  <1>4. ASSUME NEW c \in Calls, Operate(c) PROVE AuditKept
    <2>1. /\ stage[c].at = "ready" /\ \E a \in Stages : Move(c, a)
          /\ \E v : asked' = [asked EXCEPT ![c] = v]
          /\ UNCHANGED <<audits, restarts, purged, rejects>>
      BY <1>4 DEF Operate, Ready, Stages
    <2>2. \A o \in Calls : o # c \/ stage[o].at # "ready" => asked'[o] = asked[o]
      BY <1>1, <2>1
    <2> QED BY <1>2, <2>1, <2>2
  <1>5. ASSUME NEW c \in Calls, Answered(c) \/ LookFlag(c) \/ SetFlag(c) PROVE AuditKept
    <2>1. UNCHANGED <<audits, asked, restarts, purged, rejects>>
      BY <1>5 DEF Answered, LookFlag, SetFlag
    <2>2. \E a \in Stages : Move(c, a)
      <3>1. CASE Answered(c) BY <3>1 DEF Answered, Stages
      <3>2. CASE LookFlag(c) BY <3>2 DEF LookFlag, Stages
      <3>3. CASE SetFlag(c) BY <3>3 DEF SetFlag, Stages
      <3> QED BY <1>5, <3>1, <3>2, <3>3
    <2> QED BY <1>2, <2>1, <2>2
  <1>6. ASSUME NEW c \in Calls, TapInsert(c) PROVE AuditKept
    <2>1. /\ stage[c].at = "insert" /\ RegistrarEvento(TapRecord(c)) /\ Move(c, AfterInsert(c))
          /\ UNCHANGED <<asked, restarts, purged>>
      BY <1>6 DEF TapInsert
    <2>2. AfterInsert(c) \in Stages
      BY DEF AfterInsert, Stages
    <2>3. \A o \in Calls : stage'[o].kind = stage[o].kind /\ stage'[o].on = stage[o].on
      BY <1>1, <2>1, <2>2, Moved
    <2>4. /\ audits \subseteq audits' /\ audits' \subseteq audits \cup {TapRecord(c)}
          /\ rejects <= rejects'
      BY <1>1, <2>1 DEF RegistrarEvento, Reject
    <2>5. TapRecord(c).by = c
      BY <2>1, TapTyped
    <2>6. \A x \in audits' \ audits : x.by = c /\ x = TapRecord(c)
      BY <2>4, <2>5
    <2>7. \A x \in audits' \ audits : stage[x.by].at = "insert" /\ x = TapRecord(x.by) /\ TapInsert(x.by)
      BY <1>6, <2>1, <2>6
    <2> QED BY <1>1, <2>1, <2>3, <2>4, <2>7 DEF AuditKept
  <1>7. ASSUME NEW c \in Calls, RegisterEvent(c) PROVE AuditKept
    <2>1. PICK x : /\ x = Record(c, CallerOf[c], "other", "other", "workspace", "workspace id", "resource")
                   /\ RegistrarEvento(x)
      BY <1>7 DEF RegisterEvent
    <2>2. /\ stage[c].kind = "register" /\ Move(c, "done") /\ UNCHANGED <<asked, restarts, purged>>
          /\ "done" \in Stages
      BY <1>7 DEF RegisterEvent, Ready, Stages
    <2>3. \A o \in Calls : stage'[o].kind = stage[o].kind /\ stage'[o].on = stage[o].on
      BY <1>1, <2>2, Moved
    <2>4. /\ audits \subseteq audits' /\ audits' \subseteq audits \cup {x} /\ rejects <= rejects'
      <3>1. RegistrarEvento(x)
        BY <2>1
      <3> QED BY <1>1, <3>1 DEF RegistrarEvento, Reject
    <2>5. x.by = c /\ x.action = "other"
      BY <2>1 DEF Record
    <2> QED BY <1>1, <2>2, <2>3, <2>4, <2>5 DEF AuditKept
  <1>8. ASSUME NEW c \in Calls, EliminarRegistrosUsuario(c) PROVE AuditKept
    <2>1. /\ Move(c, "done") /\ UNCHANGED <<asked, restarts>> /\ "done" \in Stages
          /\ audits' \subseteq audits /\ rejects <= rejects'
      BY <1>1, <1>8 DEF EliminarRegistrosUsuario, Reject, Stages
    <2>2. \A o \in Calls : stage'[o].kind = stage[o].kind /\ stage'[o].on = stage[o].on
      BY <1>1, <2>1, Moved
    <2>3. ~purged' => ~purged /\ audits \subseteq audits'
      BY <1>8 DEF EliminarRegistrosUsuario
    <2> QED BY <1>1, <2>1, <2>2, <2>3 DEF AuditKept
  <1>9. ASSUME NEW c \in Calls, StartList(c) PROVE AuditKept
    <2>1. /\ stage[c].at = "ready" /\ (\E a \in {"count", "find"} : Move(c, a))
          /\ \E v : asked' = [asked EXCEPT ![c] = v]
          /\ UNCHANGED <<audits, restarts, purged, rejects>>
      BY <1>9 DEF StartList, Ready
    <2>2. \A o \in Calls : o # c \/ stage[o].at # "ready" => asked'[o] = asked[o]
      BY <1>1, <2>1
    <2> QED BY <1>2, <2>1, <2>2 DEF Stages
  <1>10. ASSUME NEW c \in Calls, Count(c) \/ Find(c) PROVE AuditKept
    <2>1. UNCHANGED <<audits, asked, restarts, purged, rejects>>
      BY <1>10 DEF Count, Find
    <2>2. \E a \in {"count", "find", "done"} : Move(c, a)
      <3>1. CASE Count(c) BY <3>1 DEF Count
      <3>2. CASE Find(c) BY <3>2 DEF Find
      <3> QED BY <1>10, <3>1, <3>2
    <2> QED BY <1>2, <2>1, <2>2 DEF Stages
  <1>11. ASSUME NEW s \in Servers, Restart(s) PROVE AuditKept
    <2>1. /\ UNCHANGED <<audits, asked, purged, rejects>>
          /\ \A t \in Servers : restarts[t] <= restarts'[t]
          /\ \A c \in Calls : stage'[c].kind = stage[c].kind /\ stage'[c].on = stage[c].on
      BY <1>1, <1>11 DEF Restart
    <2> QED BY <1>1, <2>1 DEF AuditKept
  <1>12. CASE PassHour \/ UNCHANGED auVars
    <2>1. UNCHANGED <<audits, stage, asked, restarts, purged, rejects>>
      BY <1>12 DEF PassHour, auVars
    <2> QED BY <1>1, <2>1 DEF AuditKept
  <1> QED
    BY <1>3, <1>4, <1>5, <1>6, <1>7, <1>8, <1>9, <1>10, <1>11, <1>12 DEF AuditNext

(* Only a login leaves a first access. *)
LEMMA TapAction ==
  ASSUME NEW c \in Calls
  PROVE  /\ TapRecord(c).action = "first_access" => stage[c].kind = "login"
         /\ stage[c].kind = "login" =>
              /\ TapRecord(c).action = "first_access" /\ TapRecord(c).user = CallerOf[c]
              /\ TapRecord(c).on = stage[c].on /\ TapRecord(c).life = restarts[stage[c].on]
         /\ stage[c].kind = "operation" => TapRecord(c).event = EventType(asked[c])
  <1>1. CASE stage[c].kind = "login"
    BY <1>1 DEF TapRecord, Record
  <1>2. CASE stage[c].kind # "login"
    <2>1. /\ TapRecord(c).action = MapMethodToAction(asked[c].method)
          /\ TapRecord(c).event = EventType(asked[c])
      BY <1>2 DEF TapRecord, Record
    <2>2. MapMethodToAction(asked[c].method) \in {"create", "update", "delete", "read"}
      BY DEF MapMethodToAction
    <2> QED BY <1>2, <2>1, <2>2
  <1> QED BY <1>1, <1>2

LEMMA EventStep ==
  AuditTypeInv /\ EventsFitMethods /\ [AuditNext]_auVars => EventsFitMethods'
  <1> SUFFICES ASSUME AuditTypeInv, EventsFitMethods, [AuditNext]_auVars,
                      NEW x \in audits', stage'[x.by].kind = "operation"
               PROVE  \E i \in DOMAIN Endpoints : /\ Endpoints[i].event = x.event
                                                  /\ FitsCall(Endpoints[i], asked'[x.by])
    BY DEF EventsFitMethods
  <1>1. AuditKept
    BY StepKeeps
  <1>2. x.by \in Calls
    BY AuditTypeStep DEF AuditTypeInv, AuditTypeOK, Docs
  <1>3. stage[x.by].kind = "operation"
    BY <1>1, <1>2 DEF AuditKept
  <1>4. CASE x \in audits
    <2>1. stage[x.by].at \in Past
      BY <1>4 DEF AuditTypeInv, Recorded
    <2>2. asked'[x.by] = asked[x.by]
      BY <1>1, <1>2, <2>1 DEF AuditKept, Past
    <2> QED BY <1>3, <1>4, <2>2 DEF EventsFitMethods
  <1>5. CASE stage[x.by].at = "insert" /\ x = TapRecord(x.by)
    <2>1. asked'[x.by] = asked[x.by]
      BY <1>1, <1>2, <1>5 DEF AuditKept
    <2>2. ShouldAuditEndpoint(asked[x.by])
      BY <1>2, <1>3, <1>5 DEF AuditTypeInv, Doing
    <2>3. x.event = EventType(asked[x.by])
      BY <1>2, <1>3, <1>5, TapAction
    <2> QED BY <2>1, <2>2, <2>3, EventFits
  <1> QED BY <1>1, <1>3, <1>4, <1>5 DEF AuditKept

(* No record names the event of another method: the first endpoint that    *)
(* fits path and method is found, whatever the order of the lists.         *)
THEOREM EventsAreOfTheirMethod == AuditSpec => []EventsFitMethods
  <1>1. AuditInit => EventsFitMethods
    BY DEF AuditInit, EventsFitMethods
  <1> QED BY <1>1, EventStep, AuditTypeInit, AuditTypeStep, PTL DEF AuditSpec
-----------------------------------------------------------------------------
(* First accesses.  While a record's process lives, its user has a flag    *)
(* there from the record's time on, or the login that left it is about to  *)
(* set one; a login that ran alone, on its way to the insert, met none;    *)
(* and a flag that is about to be set has its record already.              *)
FirstAccessFrom ==
  \A x \in audits : x.action = "first_access" =>
    /\ stage[x.by].kind = "login" /\ x.user = CallerOf[x.by] /\ x.on = stage[x.by].on
    /\ x.life <= restarts[x.on]

FlagFollows ==
  /\ \A s \in Servers, u \in AuditUsers : cache[s][u] <= hour + FlagLife
  /\ \A x \in audits : x.action = "first_access" /\ x.life = restarts[x.on] =>
       stage[x.by].at = "flag" \/ cache[x.on][x.user] >= x.at + FlagLife

TapLogin(c) == stage[c].kind = "login" /\ stage[c].at \in InTap

TogetherSeen ==
  \A c, d \in Calls : c # d /\ TapLogin(c) /\ TapLogin(d) /\ CallerOf[c] = CallerOf[d] => c \in together

NoFlagMet ==
  \A c \in Calls : stage[c].kind = "login" /\ stage[c].at = "insert" /\ c \notin together =>
    cache[stage[c].on][CallerOf[c]] <= hour

FlagComing ==
  rejects = 0 /\ ~purged =>
    \A c \in Calls : stage[c].at = "flag" =>
      \E x \in FirstAccesses(CallerOf[c]) : x.on = stage[c].on /\ x.life = restarts[x.on]

LoginInv ==
  /\ FirstAccessFrom /\ FlagFollows /\ TogetherSeen /\ NoFlagMet /\ FirstAccessOnce
  /\ FlagComing /\ FlagsHaveRecords

LEMMA Numbers ==
  ASSUME AuditTypeInv
  PROVE  /\ AuditTypeOK /\ hour \in Nat /\ rejects \in Nat
         /\ FlagLife \in Nat /\ FlagLife > 0 /\ audits \subseteq Docs
         /\ cache \in [Servers -> [AuditUsers -> Nat]]
         /\ stage \in [Calls -> [at : Stages, kind : Kinds, on : Servers]]
         /\ restarts \in [Servers -> Nat]
         /\ \A x \in audits : /\ x.by \in Calls /\ x.user \in AuditUsers /\ x.on \in Servers
                              /\ x.at \in Nat /\ x.life \in Nat /\ x.at <= hour /\ stage[x.by].at \in Past
  <1>1. AuditTypeOK /\ audits \subseteq Docs /\ (\A x \in audits : x.at <= hour) /\ Recorded
        /\ hour \in 0 .. LastHour /\ rejects \in 0 .. MaxRejects /\ restarts \in [Servers -> 0 .. MaxRestarts]
        /\ cache \in [Servers -> [AuditUsers -> 0 .. LastHour + FlagLife]]
        /\ stage \in [Calls -> [at : Stages, kind : Kinds, on : Servers]]
    BY DEF AuditTypeInv, AuditTypeOK
  <1>2. cache \in [Servers -> [AuditUsers -> Nat]] /\ restarts \in [Servers -> Nat]
    BY <1>1, AuditAssumption
  <1>3. hour \in Nat /\ rejects \in Nat /\ FlagLife \in Nat /\ FlagLife > 0
    BY <1>1, AuditAssumption
  <1>4. \A x \in audits : /\ x.by \in Calls /\ x.user \in AuditUsers /\ x.on \in Servers
                          /\ x.at \in Nat /\ x.life \in Nat
    BY <1>1 DEF Docs
  <1> QED BY <1>1, <1>2, <1>3, <1>4 DEF Recorded

LEMMA FirstAccessFromStep ==
  ASSUME AuditTypeInv, AuditTypeInv', FirstAccessFrom, AuditKept
  PROVE  FirstAccessFrom'
  <1>1. SUFFICES ASSUME NEW x \in audits', x.action = "first_access"
                 PROVE  /\ stage'[x.by].kind = "login" /\ x.user = CallerOf[x.by] /\ x.on = stage'[x.by].on
                        /\ x.life <= restarts'[x.on]
    BY DEF FirstAccessFrom
  <1>2. x.by \in Calls /\ x.on \in Servers /\ x.life \in Nat /\ restarts \in [Servers -> Nat]
        /\ restarts' \in [Servers -> Nat] /\ stage[x.by].on \in Servers
    <2>1. audits' \subseteq Docs
      BY DEF AuditTypeInv, AuditTypeOK
    <2>2. stage[x.by].on \in Servers /\ x.by \in Calls /\ x.on \in Servers /\ x.life \in Nat
      BY <2>1, Numbers DEF Docs
    <2>3. restarts' \in [Servers -> Nat]
      BY AuditAssumption DEF AuditTypeInv, AuditTypeOK
    <2> QED BY <2>2, <2>3, Numbers
  <1>3. restarts[x.on] <= restarts'[x.on] /\ restarts[x.on] \in Nat /\ restarts'[x.on] \in Nat
    BY <1>2 DEF AuditKept
  <1>4. stage'[x.by].kind = stage[x.by].kind
    BY <1>2 DEF AuditKept
  <1>5. stage[x.by].at # "ready" => stage'[x.by].on = stage[x.by].on
    BY <1>2 DEF AuditKept
  <1>6. CASE x \in audits
    <2>1. stage[x.by].at # "ready"
      BY <1>6, Numbers DEF Past
    <2>2. stage[x.by].kind = "login" /\ x.user = CallerOf[x.by] /\ x.on = stage[x.by].on
          /\ x.life <= restarts[x.on]
      BY <1>1, <1>6 DEF FirstAccessFrom
    <2>3. x.life <= restarts'[x.on]
      BY <1>2, <1>3, <2>2
    <2> QED BY <1>4, <1>5, <2>1, <2>2, <2>3
  <1>7. CASE stage[x.by].at = "insert" /\ x = TapRecord(x.by)
    <2>1. stage[x.by].kind = "login"
      BY <1>1, <1>2, <1>7, TapAction
    <2>2. x.user = CallerOf[x.by] /\ x.on = stage[x.by].on /\ x.life = restarts[stage[x.by].on]
      BY <1>2, <1>7, <2>1, TapAction
    <2>3. x.life <= restarts'[x.on]
      BY <1>2, <1>3, <2>2
    <2> QED BY <1>4, <1>5, <1>7, <2>1, <2>2, <2>3
  <1> QED BY <1>1, <1>6, <1>7 DEF AuditKept

(* The steps that leave no first access and set no flag. *)
LEMMA FlagFrame ==
  ASSUME AuditTypeInv, AuditTypeInv', LoginInv, AuditKept, UNCHANGED <<cache, hour, restarts>>,
         \A c \in Calls : stage[c].at = "flag" <=> stage'[c].at = "flag",
         \A x \in audits' : x \in audits \/ x.action # "first_access"
  PROVE  FlagFollows' /\ FlagComing' /\ FlagsHaveRecords'
  <1>1. FlagFollows'
    <2>1. \A x \in audits' : x.by \in Calls
      BY DEF AuditTypeInv, AuditTypeOK, Docs
    <2> QED BY <2>1 DEF LoginInv, FlagFollows
  <1>2. ~purged' => \A u : FirstAccesses(u) \subseteq FirstAccesses(u)'
    BY DEF AuditKept, FirstAccesses
  <1>3. rejects' = 0 /\ ~purged' => rejects = 0 /\ ~purged
    <2>1. rejects \in Nat /\ rejects <= rejects'
      BY Numbers DEF AuditKept
    <2>2. rejects' \in Nat
      BY AuditAssumption DEF AuditTypeInv, AuditTypeOK
    <2>3. rejects' = 0 => rejects = 0
      BY <2>1, <2>2
    <2> QED BY <2>3 DEF AuditKept
  <1>4. FlagComing'
    <2>1. \A c \in Calls : stage[c].at = "flag" => stage'[c].on = stage[c].on
      BY DEF AuditKept
    <2> QED BY <1>2, <1>3, <2>1 DEF LoginInv, FlagComing
  <1>5. FlagsHaveRecords'
    BY <1>2, <1>3 DEF LoginInv, FlagsHaveRecords
  <1> QED BY <1>1, <1>4, <1>5

LEMMA OnceFrame ==
  ASSUME FirstAccessOnce, together \subseteq together', \A x \in audits' : x \in audits \/ x.action # "first_access"
  PROVE  FirstAccessOnce'
  BY DEF FirstAccessOnce, FirstAccesses

LEMMA TogetherFrame ==
  ASSUME TogetherSeen, together \subseteq together', \A c \in Calls : TapLogin(c)' => TapLogin(c)
  PROVE  TogetherSeen'
  BY DEF TogetherSeen

LEMMA NoFlagFrame ==
  ASSUME NoFlagMet, AuditKept, together \subseteq together', UNCHANGED <<cache, hour>>,
         \A c \in Calls : TapLogin(c)' /\ stage'[c].at = "insert" => stage[c].at = "insert"
  PROVE  NoFlagMet'
  <1> SUFFICES ASSUME NEW c \in Calls, stage'[c].kind = "login", stage'[c].at = "insert", c \notin together'
               PROVE  cache[stage'[c].on][CallerOf[c]] <= hour
    BY DEF NoFlagMet
  <1>1. stage[c].kind = "login" /\ stage[c].at = "insert" /\ stage'[c].on = stage[c].on
    BY DEF AuditKept, TapLogin, InTap
  <1> QED BY <1>1 DEF NoFlagMet

(* The steps that are of no login, or end one before its insert.           *)
LEMMA NoLoginStep ==
  ASSUME AuditTypeInv, AuditTypeInv', LoginInv, AuditKept, UNCHANGED <<cache, hour, restarts>>, together \subseteq together',
         NEW c \in Calls, \A o \in Calls : o # c => stage'[o] = stage[o],
         stage[c].kind # "login" \/ (stage[c].at # "flag" /\ stage'[c].at \notin InTap),
         \A x \in audits' : x \in audits \/ x.action # "first_access"
  PROVE  LoginInv'
  <1>1. \A o \in Calls : TapLogin(o)' => TapLogin(o) /\ stage'[o] = stage[o]
    <2> SUFFICES ASSUME NEW o \in Calls, TapLogin(o)' PROVE TapLogin(o) /\ stage'[o] = stage[o]
      OBVIOUS
    <2>1. stage'[o].kind = stage[o].kind
      BY DEF AuditKept
    <2>2. o # c
      BY <2>1 DEF TapLogin
    <2> QED BY <2>2 DEF TapLogin
  <1>2. \A o \in Calls : stage[o].at = "flag" => stage[o].kind = "login"
    BY DEF AuditTypeInv, Doing
  <1>3. \A o \in Calls : stage'[o].at = "flag" => stage'[o].kind = "login"
    BY DEF AuditTypeInv, Doing
  <1>4. \A o \in Calls : stage[o].at = "flag" <=> stage'[o].at = "flag"
    <2> SUFFICES ASSUME NEW o \in Calls PROVE stage[o].at = "flag" <=> stage'[o].at = "flag"
      OBVIOUS
    <2>1. CASE o # c
      BY <2>1
    <2>2. CASE o = c
      <3>1. stage'[c].kind = stage[c].kind
        BY DEF AuditKept
      <3> QED BY <1>2, <1>3, <2>2, <3>1 DEF InTap
    <2> QED BY <2>1, <2>2
  <1>5. FirstAccessFrom'
    BY FirstAccessFromStep DEF LoginInv
  <1>6. FlagFollows' /\ FlagComing' /\ FlagsHaveRecords'
    BY <1>4, FlagFrame
  <1>7. FirstAccessOnce'
    BY OnceFrame DEF LoginInv
  <1>8. TogetherSeen'
    BY <1>1, TogetherFrame DEF LoginInv
  <1>9. NoFlagMet'
    <2>1. \A o \in Calls : TapLogin(o)' /\ stage'[o].at = "insert" => stage[o].at = "insert"
      BY <1>1
    <2> QED BY <2>1, NoFlagFrame DEF LoginInv
  <1> QED BY <1>5, <1>6, <1>7, <1>8, <1>9 DEF LoginInv

LEMMA MovedOne ==
  ASSUME AuditTypeInv, NEW c \in Calls, NEW a \in Stages, Move(c, a)
  PROVE  /\ stage'[c].at = a /\ stage'[c].kind = stage[c].kind /\ stage'[c].on = stage[c].on
         /\ \A o \in Calls : o # c => stage'[o] = stage[o]
  BY Moved DEF AuditTypeInv

LEMMA LoginTap ==
  ASSUME AuditTypeInv, AuditTypeInv', LoginInv, AuditKept, NEW c \in Calls, Answered(c) \/ LookFlag(c)
  PROVE  LoginInv'
  <1>1. UNCHANGED <<audits, cache, hour, restarts>> /\ stage[c].at \in {"handling", "tap"}
        /\ together \subseteq together'
    BY DEF Answered, LookFlag
  <1>2. PICK a \in {"tap", "insert", "done"} : Move(c, a)
    <2>1. CASE Answered(c) BY <2>1 DEF Answered
    <2>2. CASE LookFlag(c) BY <2>2 DEF LookFlag
    <2> QED BY <2>1, <2>2
  <1>3. /\ stage'[c].at = a /\ stage'[c].kind = stage[c].kind /\ stage'[c].on = stage[c].on
        /\ \A o \in Calls : o # c => stage'[o] = stage[o]
    BY <1>2, MovedOne DEF Stages
  <1>4. \A o \in Calls : stage[o].at = "flag" <=> stage'[o].at = "flag"
    BY <1>1, <1>3
  <1>5. FlagFollows' /\ FlagComing' /\ FlagsHaveRecords' /\ FirstAccessFrom' /\ FirstAccessOnce'
    BY <1>1, <1>4, FlagFrame, FirstAccessFromStep, OnceFrame DEF LoginInv
  <1>6. CASE Answered(c)
    <2>1. (stage[c].at = "handling" /\ a # "insert") \/ stage[c].kind # "login"
      <3>1. Move(c, "done") \/ Move(c, IF stage[c].kind = "login" THEN "tap" ELSE "insert")
        BY <1>6 DEF Answered
      <3>2. CASE stage[c].kind = "login"
        <4>1. stage'[c].at \in {"done", "tap"}
          BY <3>1, <3>2, MovedOne DEF Stages
        <4> QED BY <1>3, <1>6, <4>1 DEF Answered
      <3> QED BY <3>2
    <2>2. NoFlagMet'
      <3>1. \A o \in Calls : TapLogin(o)' /\ stage'[o].at = "insert" => stage[o].at = "insert"
        BY <1>3, <2>1 DEF TapLogin
      <3> QED BY <1>1, <3>1, NoFlagFrame DEF LoginInv
    <2>3. TogetherSeen'
      <3>1. CASE ~TapLogin(c)'
        <4>1. \A o \in Calls : TapLogin(o)' => TapLogin(o)
          BY <1>3, <3>1 DEF TapLogin
        <4> QED BY <1>1, <4>1, TogetherFrame DEF LoginInv
      <3>2. CASE TapLogin(c)'
        <4>1. stage[c].kind = "login"
          BY <1>3, <3>2 DEF TapLogin
        <4>2. Logins(CallerOf[c]) # {} => together' = together \cup {c} \cup Logins(CallerOf[c])
          <5>1. a = "tap"
            BY <1>3, <2>1, <3>2, <4>1 DEF TapLogin, InTap
          <5>2. ~ Move(c, "done")
            <6>1. Move(c, "done") => stage'[c].at = "done"
              BY MovedOne DEF Stages
            <6> QED BY <1>3, <5>1, <6>1
          <5> QED BY <1>6, <4>1, <5>2 DEF Answered
        <4>3. \A d \in Calls : d # c /\ TapLogin(d)' /\ CallerOf[d] = CallerOf[c] => d \in Logins(CallerOf[c])
          BY <1>3 DEF TapLogin, Logins
        <4>4. \A d \in Calls : d # c /\ TapLogin(d)' /\ CallerOf[d] = CallerOf[c] => c \in together' /\ d \in together'
          BY <4>2, <4>3
        <4>5. \A d, e \in Calls : d # c /\ e # c /\ d # e /\ TapLogin(d)' /\ TapLogin(e)' /\ CallerOf[d] = CallerOf[e]
                => d \in together'
          BY <1>1, <1>3 DEF TapLogin, LoginInv, TogetherSeen
        <4> QED BY <4>4, <4>5 DEF TogetherSeen
      <3> QED BY <3>1, <3>2
    <2> QED BY <1>5, <2>2, <2>3 DEF LoginInv
  <1>7. CASE LookFlag(c)
    <2>1. stage[c].at = "tap" /\ stage[c].kind = "login"
      BY <1>7 DEF LookFlag, AuditTypeInv, Doing
    <2>2. \A o \in Calls : TapLogin(o)' => TapLogin(o)
      BY <1>3, <2>1 DEF TapLogin, InTap
    <2>3. TogetherSeen'
      BY <1>1, <2>2, TogetherFrame DEF LoginInv
    <2>4. stage'[c].at = "insert" => cache[stage[c].on][CallerOf[c]] <= hour
      <3>1. HasFlag(c) => stage'[c].at = "done"
        BY <1>7, MovedOne DEF LookFlag, Stages
      <3>2. cache[stage[c].on][CallerOf[c]] \in Nat /\ hour \in Nat
        <4>1. CallerOf[c] \in AuditUsers
          BY <2>1, UserType DEF AuditTypeInv, Doing
        <4> QED BY <4>1, Numbers
      <3> QED BY <3>1, <3>2 DEF HasFlag
    <2>5. NoFlagMet'
      <3> SUFFICES ASSUME NEW o \in Calls, stage'[o].kind = "login", stage'[o].at = "insert", o \notin together'
                   PROVE  cache[stage'[o].on][CallerOf[o]] <= hour
        BY <1>1 DEF NoFlagMet
      <3>1. CASE o = c
        BY <1>3, <2>4, <3>1
      <3>2. CASE o # c
        BY <1>1, <1>3, <3>2 DEF LoginInv, NoFlagMet
      <3> QED BY <3>1, <3>2
    <2> QED BY <1>5, <2>3, <2>5 DEF LoginInv
  <1> QED BY <1>6, <1>7

LEMMA LoginInsert ==
  ASSUME AuditTypeInv, AuditTypeInv', LoginInv, AuditKept, NEW c \in Calls, TapInsert(c), stage[c].kind = "login"
  PROVE  LoginInv'
  <1> DEFINE x == TapRecord(c)
             u == CallerOf[c]
             s == stage[c].on
  <1>1. /\ stage[c].at = "insert" /\ RegistrarEvento(x) /\ Move(c, AfterInsert(c)) /\ AfterInsert(c) = "flag"
        /\ UNCHANGED <<cache, hour, restarts, together, purged>>
    BY DEF TapInsert, AfterInsert
  <1>2. /\ stage'[c].at = "flag" /\ stage'[c].kind = "login" /\ stage'[c].on = s
        /\ \A o \in Calls : o # c => stage'[o] = stage[o]
    BY <1>1, MovedOne DEF Stages
  <1>3. /\ x.by = c /\ x.action = "first_access" /\ x.user = u /\ x.on = s /\ x.life = restarts[s] /\ x.at = hour
        /\ u \in AuditUsers /\ s \in Servers
    BY <1>1, TapAction, TapTyped, UserType, Numbers DEF AuditTypeInv, Doing
  <1> HIDE DEF x, u, s
  <1>4. /\ audits \subseteq audits' /\ audits' \subseteq audits \cup {x}
        /\ rejects' = 0 => rejects = 0 /\ x \in audits'
    BY <1>1, Numbers DEF RegistrarEvento, Reject
  <1>5. \A y \in audits : y.by # c
    BY <1>1, Numbers DEF Past
  <1>6. FirstAccessFrom'
    BY FirstAccessFromStep DEF LoginInv
  <1>7. FlagFollows'
    <2>1. \A y \in audits : y.by \in Calls
      BY Numbers
    <2>2. \A y \in audits : stage'[y.by] = stage[y.by]
      BY <1>2, <1>5, <2>1
    <2> QED BY <1>1, <1>2, <1>3, <1>4, <2>2 DEF LoginInv, FlagFollows
  <1>8. TogetherSeen'
    <2>1. \A o \in Calls : TapLogin(o)' => TapLogin(o)
      BY <1>1, <1>2 DEF TapLogin, InTap
    <2> QED BY <1>1, <2>1, TogetherFrame DEF LoginInv
  <1>9. NoFlagMet'
    <2>1. \A o \in Calls : TapLogin(o)' /\ stage'[o].at = "insert" => stage[o].at = "insert"
      BY <1>1, <1>2
    <2> QED BY <1>1, <2>1, NoFlagFrame DEF LoginInv
  <1>10. \A v : FirstAccesses(v) \subseteq FirstAccesses(v)'
    BY <1>4 DEF FirstAccesses
  <1>11. FlagComing'
    <2> SUFFICES ASSUME rejects' = 0, ~purged', NEW o \in Calls, stage'[o].at = "flag"
                 PROVE  \E y \in FirstAccesses(CallerOf[o])' : y.on = stage'[o].on /\ y.life = restarts'[y.on]
      BY DEF FlagComing
    <2>1. CASE o = c
      <3>1. x \in FirstAccesses(u)'
        BY <1>3, <1>4 DEF FirstAccesses
      <3> QED BY <1>1, <1>2, <1>3, <2>1, <3>1 DEF u
    <2>2. CASE o # c
      BY <1>1, <1>2, <1>4, <1>10, <2>2 DEF LoginInv, FlagComing
    <2> QED BY <2>1, <2>2
  <1>12. FlagsHaveRecords'
    BY <1>1, <1>4, <1>10 DEF LoginInv, FlagsHaveRecords
  (* The record is of a login that met no flag, so any of the same life is a day older. *)
  <1>13. ASSUME NEW y \in audits, y.action = "first_access", y.user = u, y.on = s, y.life = restarts[s],
                {y.by, c} \cap together = {}
         PROVE  x.at >= y.at + FlagLife
    <2>1. y.by \in Calls /\ y.by # c /\ stage[y.by].kind = "login" /\ CallerOf[y.by] = u
      BY <1>5, <1>13, Numbers DEF LoginInv, FirstAccessFrom
    <2>2. stage[y.by].at # "flag"
      <3>1. TapLogin(c)
        BY <1>1 DEF TapLogin, InTap
      <3>2. stage[y.by].at = "flag" => TapLogin(y.by)
        BY <2>1 DEF TapLogin, InTap
      <3> QED BY <1>13, <2>1, <3>1, <3>2 DEF LoginInv, TogetherSeen, u
    <2>3. cache[s][u] >= y.at + FlagLife
      BY <1>13, <2>2 DEF LoginInv, FlagFollows
    <2>4. cache[s][u] <= hour
      BY <1>1, <1>13 DEF LoginInv, NoFlagMet, s, u
    <2>5. cache[s][u] \in Nat /\ hour \in Nat /\ y.at \in Nat /\ FlagLife \in Nat
      BY <1>3, Numbers
    <2> QED BY <1>3, <2>3, <2>4, <2>5
  <1>14. FirstAccessOnce'
    <2> SUFFICES ASSUME NEW v \in AuditUsers, NEW y \in FirstAccesses(v)', NEW z \in FirstAccesses(v)',
                        y # z, y.on = z.on, y.life = z.life, {y.by, z.by} \cap together' = {}
                 PROVE  y.at >= z.at + FlagLife \/ z.at >= y.at + FlagLife
      BY DEF FirstAccessOnce
    <2>1. y \in audits \cup {x} /\ z \in audits \cup {x} /\ y.action = "first_access" /\ z.action = "first_access"
          /\ y.user = v /\ z.user = v
      BY <1>4 DEF FirstAccesses
    <2>2. CASE y = x
      <3>1. z \in audits
        BY <2>1, <2>2
      <3> QED BY <1>1, <1>3, <1>13, <2>1, <2>2, <3>1
    <2>3. CASE z = x
      <3>1. y \in audits
        BY <2>1, <2>3
      <3> QED BY <1>1, <1>3, <1>13, <2>1, <2>3, <3>1
    <2>4. CASE y \in audits /\ z \in audits
      BY <1>1, <2>1, <2>4 DEF LoginInv, FirstAccessOnce, FirstAccesses
    <2> QED BY <2>1, <2>2, <2>3, <2>4
  <1> QED BY <1>6, <1>7, <1>8, <1>9, <1>11, <1>12, <1>14 DEF LoginInv

LEMMA LoginSetFlag ==
  ASSUME AuditTypeInv, AuditTypeInv', LoginInv, AuditKept, NEW c \in Calls, SetFlag(c)
  PROVE  LoginInv'
  <1> DEFINE u == CallerOf[c]
             s == stage[c].on
  <1>1. /\ stage[c].at = "flag" /\ Move(c, "done") /\ "done" \in Stages
        /\ UNCHANGED <<audits, hour, restarts, together, purged, rejects>>
        /\ cache' = [cache EXCEPT ![s] = [v \in AuditUsers |-> IF v \in {u} THEN hour + FlagLife ELSE @[v]]]
    BY DEF SetFlag, FlagOf, Stages
  <1>2. /\ stage'[c].at = "done" /\ stage'[c].kind = stage[c].kind /\ stage'[c].on = s
        /\ \A o \in Calls : o # c => stage'[o] = stage[o]
    BY <1>1, MovedOne
  <1>3. stage[c].kind = "login" /\ u \in AuditUsers /\ s \in Servers
    BY <1>1, UserType, Numbers DEF AuditTypeInv, Doing
  <1>4. /\ cache'[s][u] = hour + FlagLife
        /\ \A t \in Servers, v \in AuditUsers : ~(t = s /\ v = u) => cache'[t][v] = cache[t][v]
    <2> HIDE DEF s, u
    <2> QED BY <1>1, <1>3, Numbers
  <1> HIDE DEF u, s
  <1>5. \A t \in Servers, v \in AuditUsers : cache[t][v] <= cache'[t][v] /\ cache'[t][v] <= hour + FlagLife
                                             /\ cache[t][v] \in Nat /\ cache'[t][v] \in Nat
    <2> SUFFICES ASSUME NEW t \in Servers, NEW v \in AuditUsers
                 PROVE  cache[t][v] <= cache'[t][v] /\ cache'[t][v] <= hour + FlagLife
                        /\ cache[t][v] \in Nat /\ cache'[t][v] \in Nat
      OBVIOUS
    <2>1. cache[t][v] \in Nat /\ hour \in Nat /\ FlagLife \in Nat /\ cache[t][v] <= hour + FlagLife
      BY Numbers DEF LoginInv, FlagFollows
    <2>2. CASE t = s /\ v = u
      BY <1>4, <2>1, <2>2
    <2>3. CASE ~(t = s /\ v = u)
      BY <1>4, <2>1, <2>3
    <2> QED BY <2>2, <2>3
  <1>6. FirstAccessFrom' /\ FirstAccessOnce'
    BY <1>1, FirstAccessFromStep, OnceFrame DEF LoginInv
  <1>7. TogetherSeen'
    <2>1. \A o \in Calls : TapLogin(o)' => TapLogin(o)
      BY <1>2 DEF TapLogin, InTap
    <2> QED BY <1>1, <2>1, TogetherFrame DEF LoginInv
  <1>8. NoFlagMet'
    <2> SUFFICES ASSUME NEW d \in Calls, stage'[d].kind = "login", stage'[d].at = "insert", d \notin together'
                 PROVE  cache'[stage'[d].on][CallerOf[d]] <= hour'
      BY DEF NoFlagMet
    <2>1. d # c /\ stage'[d] = stage[d]
      BY <1>2
    <2>2. TapLogin(c) /\ TapLogin(d)
      BY <1>1, <1>3, <2>1 DEF TapLogin, InTap
    <2>3. CallerOf[d] # u
      BY <1>1, <2>1, <2>2 DEF LoginInv, TogetherSeen, u
    <2>4. stage[d].on \in Servers /\ CallerOf[d] \in AuditUsers
      BY <2>1, UserType, Numbers DEF AuditTypeInv, Doing
    <2>5. cache'[stage[d].on][CallerOf[d]] = cache[stage[d].on][CallerOf[d]]
      BY <1>4, <2>3, <2>4
    <2> QED BY <1>1, <2>1, <2>5 DEF LoginInv, NoFlagMet
  <1>9. FlagFollows'
    <2>1. ASSUME NEW x \in audits, x.action = "first_access", x.life = restarts[x.on]
          PROVE  stage'[x.by].at = "flag" \/ cache'[x.on][x.user] >= x.at + FlagLife
      <3>1. x.by \in Calls /\ x.user \in AuditUsers /\ x.on \in Servers /\ x.at \in Nat /\ x.at <= hour
            /\ hour \in Nat /\ FlagLife \in Nat
        BY Numbers
      <3>2. CASE x.by = c
        <4>1. x.on = s /\ x.user = u
          BY <2>1, <3>2 DEF LoginInv, FirstAccessFrom, s, u
        <4> QED BY <1>4, <3>1, <4>1
      <3>3. CASE x.by # c
        <4>1. stage'[x.by] = stage[x.by]
          BY <1>2, <3>1, <3>3
        <4>2. stage[x.by].at = "flag" \/ cache[x.on][x.user] >= x.at + FlagLife
          BY <2>1 DEF LoginInv, FlagFollows
        <4>3. cache[x.on][x.user] <= cache'[x.on][x.user] /\ cache[x.on][x.user] \in Nat /\ cache'[x.on][x.user] \in Nat
          BY <1>5, <3>1
        <4>4. cache[x.on][x.user] >= x.at + FlagLife => cache'[x.on][x.user] >= x.at + FlagLife
          BY <3>1, <4>3
        <4> QED BY <4>1, <4>2, <4>4
      <3> QED BY <3>2, <3>3
    <2> QED BY <1>1, <1>5, <2>1 DEF FlagFollows
  <1>10. \A v : FirstAccesses(v)' = FirstAccesses(v)
    BY <1>1 DEF FirstAccesses
  <1>11. FlagComing'
    <2>1. \A o \in Calls : stage'[o].at = "flag" => stage'[o] = stage[o]
      BY <1>2
    <2> QED BY <1>1, <1>10, <2>1 DEF LoginInv, FlagComing
  <1>12. FlagsHaveRecords'
    <2> SUFFICES ASSUME rejects = 0, ~purged, NEW t \in Servers, NEW v \in AuditUsers, cache'[t][v] > hour
                 PROVE  \E x \in FirstAccesses(v) : x.on = t /\ x.life = restarts[t]
      BY <1>1, <1>10 DEF FlagsHaveRecords
    <2>1. CASE t = s /\ v = u
      BY <1>1, <2>1 DEF LoginInv, FlagComing, s, u
    <2>2. CASE ~(t = s /\ v = u)
      BY <1>4, <2>2 DEF LoginInv, FlagsHaveRecords
    <2> QED BY <2>1, <2>2
  <1> QED BY <1>6, <1>7, <1>8, <1>9, <1>11, <1>12 DEF LoginInv

LEMMA LoginRestart ==
  ASSUME AuditTypeInv, AuditTypeInv', LoginInv, AuditKept, NEW s \in Servers, Restart(s)
  PROVE  LoginInv'
  <1>1. /\ restarts' = [restarts EXCEPT ![s] = @ + 1]
        /\ cache' = [cache EXCEPT ![s] = [u \in AuditUsers |-> 0]]
        /\ \A c \in Calls : stage'[c] = IF stage[c].on = s /\ stage[c].at \notin {"ready", "done"}
                                        THEN [stage[c] EXCEPT !.at = "dead"] ELSE stage[c]
        /\ UNCHANGED <<audits, hour, together, purged, rejects>>
    BY DEF Restart
  <1>2. /\ restarts'[s] = restarts[s] + 1 /\ restarts[s] \in Nat
        /\ \A t \in Servers : t # s => restarts'[t] = restarts[t] /\ cache'[t] = cache[t]
        /\ \A u \in AuditUsers : cache'[s][u] = 0
    BY <1>1, Numbers
  <1>3. ASSUME NEW c \in Calls, stage'[c].at \in InTap
        PROVE  stage'[c] = stage[c] /\ stage[c].on # s /\ stage[c].on \in Servers
    <2>1. stage[c] \in [at : Stages, kind : Kinds, on : Servers]
      BY Numbers
    <2>2. CASE stage[c].on = s /\ stage[c].at \notin {"ready", "done"}
      <3>1. stage'[c].at = "dead"
        BY <1>1, <2>1, <2>2
      <3> QED BY <1>3, <3>1 DEF InTap
    <2>3. CASE ~(stage[c].on = s /\ stage[c].at \notin {"ready", "done"})
      <3>1. stage'[c] = stage[c]
        BY <1>1, <2>3
      <3> QED BY <1>3, <2>1, <2>3, <3>1 DEF InTap
    <2> QED BY <2>2, <2>3
  <1>4. FirstAccessFrom' /\ FirstAccessOnce'
    BY <1>1, FirstAccessFromStep, OnceFrame DEF LoginInv
  <1>5. TogetherSeen'
    <2>1. \A c \in Calls : TapLogin(c)' => TapLogin(c)
      BY <1>3 DEF TapLogin
    <2> QED BY <1>1, <2>1, TogetherFrame DEF LoginInv
  <1>6. NoFlagMet'
    <2> SUFFICES ASSUME NEW c \in Calls, stage'[c].kind = "login", stage'[c].at = "insert", c \notin together'
                 PROVE  cache'[stage'[c].on][CallerOf[c]] <= hour
      BY <1>1 DEF NoFlagMet
    <2>1. stage'[c] = stage[c] /\ stage[c].on # s /\ stage[c].on \in Servers
      BY <1>3 DEF InTap
    <2>2. cache'[stage[c].on] = cache[stage[c].on]
      BY <1>2, <2>1
    <2> QED BY <1>1, <2>1, <2>2 DEF LoginInv, NoFlagMet
  <1>7. FlagFollows'
    <2>1. \A t \in Servers, u \in AuditUsers : cache'[t][u] <= hour + FlagLife
      <3> TAKE t \in Servers, u \in AuditUsers
      <3>1. hour \in Nat /\ FlagLife \in Nat /\ cache[t][u] <= hour + FlagLife
        BY Numbers DEF LoginInv, FlagFollows
      <3>2. cache'[t][u] = 0 \/ cache'[t][u] = cache[t][u]
        BY <1>2
      <3> QED BY <3>1, <3>2
    <2>2. ASSUME NEW x \in audits, x.action = "first_access", x.life = restarts'[x.on]
          PROVE  stage'[x.by].at = "flag" \/ cache'[x.on][x.user] >= x.at + FlagLife
      <3>1. x.by \in Calls /\ x.on \in Servers /\ x.life \in Nat /\ x.on = stage[x.by].on /\ x.life <= restarts[x.on]
        BY <2>2, Numbers DEF LoginInv, FirstAccessFrom
      <3>2. x.on # s
        <4>1. restarts[s] \in Nat /\ restarts'[s] = restarts[s] + 1
          BY <1>2
        <4> QED BY <2>2, <3>1, <4>1
      <3>3. stage'[x.by] = stage[x.by] /\ restarts'[x.on] = restarts[x.on] /\ cache'[x.on] = cache[x.on]
        BY <1>1, <1>2, <3>1, <3>2
      <3> QED BY <2>2, <3>3 DEF LoginInv, FlagFollows
    <2> QED BY <1>1, <2>1, <2>2 DEF FlagFollows
  <1>8. \A v : FirstAccesses(v)' = FirstAccesses(v)
    BY <1>1 DEF FirstAccesses
  <1>9. FlagComing'
    <2> SUFFICES ASSUME rejects = 0, ~purged, NEW c \in Calls, stage'[c].at = "flag"
                 PROVE  \E x \in FirstAccesses(CallerOf[c]) : x.on = stage'[c].on /\ x.life = restarts'[x.on]
      BY <1>1, <1>8 DEF FlagComing
    <2>1. stage'[c] = stage[c] /\ stage[c].on # s /\ stage[c].on \in Servers
      BY <1>3 DEF InTap
    <2>2. PICK x \in FirstAccesses(CallerOf[c]) : x.on = stage[c].on /\ x.life = restarts[x.on]
      BY <2>1 DEF LoginInv, FlagComing
    <2> QED BY <1>2, <2>1, <2>2
  <1>10. FlagsHaveRecords'
    <2> SUFFICES ASSUME rejects = 0, ~purged, NEW t \in Servers, NEW v \in AuditUsers, cache'[t][v] > hour
                 PROVE  \E x \in FirstAccesses(v) : x.on = t /\ x.life = restarts'[t]
      BY <1>1, <1>8 DEF FlagsHaveRecords
    <2>1. t # s
      <3>1. hour \in Nat
        BY Numbers
      <3> QED BY <1>2, <3>1
    <2> QED BY <1>2, <2>1 DEF LoginInv, FlagsHaveRecords
  <1> QED BY <1>4, <1>5, <1>6, <1>7, <1>9, <1>10 DEF LoginInv

LEMMA LoginHour ==
  ASSUME AuditTypeInv, AuditTypeInv', LoginInv, AuditKept, PassHour
  PROVE  LoginInv'
  <1>1. /\ hour' = hour + 1 /\ hour \in Nat /\ FlagLife \in Nat
        /\ UNCHANGED <<audits, cache, stage, restarts, together, purged, rejects>>
    BY Numbers DEF PassHour
  <1>2. \A t \in Servers, u \in AuditUsers : cache[t][u] \in Nat
    BY Numbers
  <1>3. FirstAccessFrom' /\ FirstAccessOnce' /\ TogetherSeen'
    <2>1. \A c \in Calls : TapLogin(c)' => TapLogin(c)
      BY <1>1 DEF TapLogin
    <2> QED BY <1>1, <2>1, FirstAccessFromStep, OnceFrame, TogetherFrame DEF LoginInv
  <1>4. FlagFollows'
    <2>1. \A t \in Servers, u \in AuditUsers : cache[t][u] <= hour + 1 + FlagLife
      BY <1>1, <1>2 DEF LoginInv, FlagFollows
    <2> QED BY <1>1, <2>1 DEF LoginInv, FlagFollows
  <1>5. NoFlagMet'
    <2>1. ASSUME NEW c \in Calls, stage[c].kind = "login", stage[c].at = "insert", c \notin together
          PROVE  cache[stage[c].on][CallerOf[c]] <= hour + 1
      <3>1. cache[stage[c].on][CallerOf[c]] \in Nat
        <4>1. stage[c].on \in Servers /\ CallerOf[c] \in AuditUsers
          BY <2>1, UserType, Numbers DEF AuditTypeInv, Doing
        <4> QED BY <1>2, <4>1
      <3> QED BY <1>1, <2>1, <3>1 DEF LoginInv, NoFlagMet
    <2> QED BY <1>1, <2>1 DEF NoFlagMet
  <1>6. FlagComing'
    BY <1>1 DEF LoginInv, FlagComing, FirstAccesses
  <1>7. FlagsHaveRecords'
    <2>1. \A t \in Servers, u \in AuditUsers : cache[t][u] > hour + 1 => cache[t][u] > hour
      BY <1>1, <1>2
    <2> QED BY <1>1, <2>1 DEF LoginInv, FlagsHaveRecords, FirstAccesses
  <1> QED BY <1>3, <1>4, <1>5, <1>6, <1>7 DEF LoginInv

LEMMA LoginStep ==
  AuditTypeInv /\ LoginInv /\ [AuditNext]_auVars => LoginInv'
  <1> SUFFICES ASSUME AuditTypeInv, LoginInv, [AuditNext]_auVars PROVE LoginInv'
    OBVIOUS
  <1>1. AuditTypeInv' /\ AuditKept
    BY AuditTypeStep, StepKeeps
  <1>2. ASSUME NEW c \in Calls, Login(c) PROVE LoginInv'
    <2>1. PICK s \in Servers : stage' = [stage EXCEPT ![c].at = "handling", ![c].on = s]
      BY <1>2 DEF Login
    <2>2. /\ stage[c].at = "ready" /\ UNCHANGED <<audits, cache, hour, restarts, together>>
      BY <1>2 DEF Login, Ready
    <2>3. stage'[c].at = "handling" /\ \A o \in Calls : o # c => stage'[o] = stage[o]
      BY <2>1, Numbers
    <2> QED BY <1>1, <2>2, <2>3, NoLoginStep DEF InTap
  (* The other steps of one request that are of no login in its tap. *)
  <1>3. ASSUME NEW c \in Calls, NEW a \in Stages, Move(c, a),
               stage[c].kind # "login" \/ (stage[c].at \notin InTap /\ a \notin InTap),
               UNCHANGED <<cache, hour, restarts, together>>
        PROVE  LoginInv'
    <2>1. \A o \in Calls : o # c => stage'[o] = stage[o]
      BY <1>3, MovedOne DEF InTap
    <2>2. \A x \in audits' : x \in audits \/ x.action # "first_access"
      <3> SUFFICES ASSUME NEW x \in audits', x \notin audits, x.action = "first_access" PROVE FALSE
        OBVIOUS
      <3>1. x.by \in Calls
        BY <1>1 DEF AuditTypeInv, AuditTypeOK, Docs
      <3>2. stage[x.by].at = "insert" /\ x = TapRecord(x.by) /\ TapInsert(x.by)
        BY <1>1 DEF AuditKept
      <3>3. stage[x.by].kind = "login"
        BY <3>1, <3>2, TapAction
      <3>4. x.by # c
        BY <1>3, <3>2, <3>3 DEF InTap
      <3>5. stage'[x.by].at = "flag"
        BY <3>1, <3>2, <3>3, MovedOne DEF TapInsert, AfterInsert, Stages
      <3> QED BY <2>1, <3>1, <3>2, <3>4, <3>5
    <2>3. stage[c].kind # "login" \/ (stage[c].at # "flag" /\ stage'[c].at \notin InTap)
      BY <1>3, MovedOne DEF InTap
    <2> QED BY <1>1, <1>3, <2>1, <2>2, <2>3, NoLoginStep
  <1>4. ASSUME NEW c \in Calls, TapInsert(c), stage[c].kind # "login" PROVE LoginInv'
    <2>1. Move(c, AfterInsert(c)) /\ AfterInsert(c) \in Stages /\ UNCHANGED <<cache, hour, restarts, together>>
      BY <1>4 DEF TapInsert, AfterInsert, Stages
    <2> QED BY <1>3, <1>4, <2>1
  <1>5. ASSUME NEW c \in Calls, Operate(c) \/ RegisterEvent(c) \/ EliminarRegistrosUsuario(c) PROVE LoginInv'
    <2>1. stage[c].kind # "login" /\ UNCHANGED <<cache, hour, restarts, together>>
      BY <1>5 DEF Operate, RegisterEvent, EliminarRegistrosUsuario, Ready
    <2>2. \E a \in {"handling", "done"} : Move(c, a)
      <3>1. CASE Operate(c) BY <3>1 DEF Operate
      <3>2. CASE RegisterEvent(c) BY <3>2 DEF RegisterEvent
      <3>3. CASE EliminarRegistrosUsuario(c) BY <3>3 DEF EliminarRegistrosUsuario
      <3> QED BY <1>5, <3>1, <3>2, <3>3
    <2> QED BY <1>3, <2>1, <2>2 DEF Stages
  <1>6. ASSUME NEW c \in Calls, StartList(c) \/ Count(c) \/ Find(c) PROVE LoginInv'
    <2>1. UNCHANGED <<audits, cache, hour, restarts, together, purged, rejects>>
      BY <1>6 DEF StartList, Count, Find
    <2>2. \E a \in {"count", "find", "done"} : Move(c, a)
      <3>1. CASE StartList(c) BY <3>1 DEF StartList
      <3>2. CASE Count(c) BY <3>2 DEF Count
      <3>3. CASE Find(c) BY <3>3 DEF Find
      <3> QED BY <1>6, <3>1, <3>2, <3>3
    <2>3. stage[c].at \in {"ready", "count", "find"}
      BY <1>6 DEF StartList, Count, Find, Ready
    <2> QED BY <1>3, <2>1, <2>2, <2>3 DEF Stages, InTap
  <1>7. CASE UNCHANGED auVars
    BY <1>7 DEF auVars, LoginInv, FirstAccessFrom, FlagFollows, TogetherSeen, TapLogin, NoFlagMet,
                FirstAccessOnce, FlagComing, FlagsHaveRecords, FirstAccesses
  <1> QED
    BY <1>1, <1>2, <1>4, <1>5, <1>6, <1>7, LoginTap, LoginInsert, LoginSetFlag, LoginRestart, LoginHour
    DEF AuditNext

LEMMA LoginInit == AuditInit => LoginInv
  <1> SUFFICES ASSUME AuditInit PROVE LoginInv
    OBVIOUS
  <1>1. audits = {} /\ hour = 0 /\ cache = [s \in Servers |-> [u \in AuditUsers |-> 0]] /\ FlagLife \in Nat
    BY AuditAssumption DEF AuditInit
  <1>2. \A c \in Calls : stage[c].at = "ready"
    BY DEF AuditInit
  <1>3. FirstAccessFrom /\ FirstAccessOnce
    BY <1>1 DEF FirstAccessFrom, FirstAccessOnce, FirstAccesses
  <1>4. FlagFollows /\ FlagsHaveRecords
    BY <1>1 DEF FlagFollows, FlagsHaveRecords
  <1>5. TogetherSeen /\ NoFlagMet /\ FlagComing
    BY <1>2 DEF TogetherSeen, TapLogin, InTap, NoFlagMet, FlagComing
  <1> QED BY <1>3, <1>4, <1>5 DEF LoginInv

LEMMA LoginCorrect == AuditSpec => []LoginInv
  BY LoginInit, LoginStep, AuditTypeInit, AuditTypeStep, PTL DEF AuditSpec

(* One process records a user once a day, however many logins and other    *)
(* requests there are, if none of the user's logins ran together.          *)
THEOREM OneFirstAccessADay == AuditSpec => []FirstAccessOnce
  <1>1. LoginInv => FirstAccessOnce
    BY DEF LoginInv
  <1> QED BY <1>1, LoginCorrect, PTL

(* No flag that keeps a login from being recorded lacks its record.        *)
THEOREM FlagsStandForRecords == AuditSpec => []FlagsHaveRecords
  <1>1. LoginInv => FlagsHaveRecords
    BY DEF LoginInv
  <1> QED BY <1>1, LoginCorrect, PTL
-----------------------------------------------------------------------------
(* Pages.  A record that was there at the start and is still to come has   *)
(* at least as many newer ones as the pages before this one hold: records  *)
(* that are added are newer, and only push it back.                        *)
Newer(docs, x) == {y \in docs : y.at > x.at}

OneOfItsTime(x) == \A y \in audits : y.at = x.at => y = x

Sought(c) == {x \in read[c].before : x \notin read[c].seen /\ OneOfItsTime(x)}

Listing(c) ==
  /\ stage[c].at = "ready" => read[c].page = 1
  /\ stage[c].kind \in {"list", "search"} /\ ~purged =>
       /\ stage[c].at \in {"count", "find", "done"} => read[c].before \subseteq AuditFilter(asked[c])
       /\ stage[c].at = "find" /\ stage[c].kind = "list" => read[c].pages = PagesOf(Cardinality(read[c].at))
       /\ stage[c].at \in {"count", "find"} /\ ~read[c].torn =>
            \A x \in Sought(c) : Cardinality(Newer(AuditFilter(asked[c]), x)) >= Skip(read[c].page)
       /\ stage[c].at = "done" /\ ~read[c].torn => Sought(c) = {}

(* What a page leaves out of the rest of a list: a record that is not on   *)
(* the pages up to it, and the only one of its time, has as many newer     *)
(* ones as they hold.                                                      *)
LEMMA PageLeaves ==
  ASSUME NEW docs \in SUBSET Docs, IsFiniteSet(docs), NEW skip \in Nat, NEW page \in PageAt(docs, skip),
         NEW x \in docs, x \notin page, \A y \in docs : y.at = x.at => y = x,
         Cardinality(Newer(docs, x)) >= skip
  PROVE  Cardinality(Newer(docs, x)) >= skip + PageSize
  <1> DEFINE N == Newer(docs, x)
  <1>1. PICK B \in Leading(docs, skip) : B \cup page \in Leading(docs, skip + PageSize)
    BY DEF PageAt
  <1> DEFINE L == B \cup page
  <1>2. /\ N \subseteq docs /\ x \notin N /\ B \subseteq docs /\ L \subseteq docs
        /\ PageSize \in Nat /\ x.at \in Nat /\ \A y \in docs : y.at \in Nat
    BY <1>1, AuditAssumption DEF Newer, Leading, Docs
  <1>3. /\ IsFiniteSet(N) /\ Cardinality(N) \in Nat /\ IsFiniteSet(B) /\ Cardinality(B) \in Nat
        /\ IsFiniteSet(L) /\ Cardinality(L) \in Nat /\ Cardinality(docs) \in Nat
    <2> HIDE DEF N, L
    <2> QED BY <1>2, FS_Subset, FS_CardinalityType
  <1>4. /\ Cardinality(B) = IF skip < Cardinality(docs) THEN skip ELSE Cardinality(docs)
        /\ \A y \in B, z \in docs : z.at > y.at => z \in B
    BY <1>1 DEF Leading
  <1>5. /\ Cardinality(L) = IF skip + PageSize < Cardinality(docs) THEN skip + PageSize ELSE Cardinality(docs)
        /\ \A y \in L, z \in docs : z.at > y.at => z \in L
    BY <1>1 DEF Leading
  <1>6. x \notin B
    <2> SUFFICES ASSUME x \in B PROVE FALSE
      OBVIOUS
    <2>1. N \cup {x} \subseteq B
      BY <1>4 DEF Newer
    <2>2. Cardinality(N \cup {x}) = Cardinality(N) + 1
      <3> HIDE DEF N
      <3> QED BY <1>2, <1>3, FS_AddElement
    <2>3. Cardinality(N \cup {x}) <= Cardinality(B)
      <3> HIDE DEF N
      <3> QED BY <1>3, <2>1, FS_Subset
    <2> HIDE DEF L
    <2> QED BY <1>3, <1>4, <2>2, <2>3
  <1>7. x \notin L
    BY <1>6
  <1>8. L \subseteq N
    <2> SUFFICES ASSUME NEW y \in L PROVE y \in N
      OBVIOUS
    <2>1. y \in docs /\ y # x /\ y.at \in Nat
      BY <1>2, <1>7
    <2>2. ~ (x.at > y.at)
      BY <1>5, <1>7
    <2>3. y.at # x.at
      BY <2>1
    <2>4. y.at > x.at
      BY <1>2, <2>1, <2>2, <2>3
    <2> QED BY <2>1, <2>4 DEF Newer
  <1> HIDE DEF L
  <1>9. Cardinality(L) <= Cardinality(N)
    <2> HIDE DEF N
    <2> QED BY <1>3, <1>8, FS_Subset
  <1>10. Cardinality(N) < Cardinality(docs)
    <2>1. Cardinality(N \cup {x}) = Cardinality(N) + 1
      <3> HIDE DEF N
      <3> QED BY <1>2, <1>3, FS_AddElement
    <2>2. N \cup {x} \subseteq docs
      BY <1>2
    <2>3. Cardinality(N \cup {x}) <= Cardinality(docs)
      <3> HIDE DEF N
      <3> QED BY <2>2, FS_Subset
    <2> HIDE DEF N
    <2> QED BY <1>3, <2>1, <2>3
  <1> HIDE DEF N
  <1>11. Cardinality(N) >= skip + PageSize
    BY <1>2, <1>3, <1>5, <1>9, <1>10
  <1> QED BY <1>11 DEF N

LEMMA SkipNext ==
  ASSUME NEW p \in Nat, p >= 1
  PROVE  Skip(p) \in Nat /\ Skip(p + 1) = Skip(p) + PageSize
  BY AuditAssumption DEF Skip

(* Nothing is left after the last page. *)
LEMMA LastPage ==
  ASSUME NEW n \in Nat, NEW p \in Nat, p >= 1, ~ (p < PagesOf(n)), NEW r \in Nat, r < n
  PROVE  ~ (r >= Skip(p) + PageSize)
  <1>1. PageSize \in Nat /\ PageSize > 0
    BY AuditAssumption
  <1>2. PagesOf(n) \in Nat /\ PagesOf(n) * PageSize >= n
    BY PagesHold
  <1>3. Skip(p) + PageSize = p * PageSize
    BY <1>1 DEF Skip
  <1>4. p * PageSize >= PagesOf(n) * PageSize
    BY <1>1, <1>2
  <1>5. p * PageSize \in Nat /\ PagesOf(n) * PageSize \in Nat
    BY <1>1, <1>2
  <1> QED BY <1>2, <1>3, <1>4, <1>5

FiniteRecords == IsFiniteSet(audits)

LEMMA RecordsFinite == AuditTypeInv => FiniteRecords
  <1> SUFFICES ASSUME AuditTypeInv PROVE FiniteRecords
    OBVIOUS
  <1>1. audits \subseteq Docs /\ Recorded
    BY DEF AuditTypeInv, AuditTypeOK
  <1> QED BY <1>1, RecordsFew DEF FiniteRecords

LEMMA RecordsFiniteNext == AuditTypeInv' => FiniteRecords'
  BY RecordsFinite, PTL

(* What the other steps leave of a list. *)
LEMMA ListingFrame ==
  ASSUME AuditTypeInv, AuditTypeInv', AuditKept, NEW c \in Calls, Listing(c), read'[c] = read[c],
         \/ stage'[c] = stage[c]
         \/ stage'[c].at = "dead"
         \/ stage[c].kind \notin {"list", "search"} /\ stage'[c].at # "ready"
  PROVE  Listing(c)'
  <1>1. stage'[c].at = "ready" => read'[c].page = 1
    BY DEF Listing
  <1>2. ASSUME stage'[c].kind \in {"list", "search"}, ~purged', stage'[c].at \in {"count", "find", "done"}
        PROVE  /\ read'[c].before \subseteq AuditFilter(asked[c])'
               /\ stage'[c].at = "find" /\ stage'[c].kind = "list" =>
                    read'[c].pages = PagesOf(Cardinality(read'[c].at))
               /\ stage'[c].at \in {"count", "find"} /\ ~read'[c].torn =>
                    \A x \in Sought(c)' : Cardinality(Newer(AuditFilter(asked[c]), x)') >= Skip(read'[c].page)
               /\ stage'[c].at = "done" /\ ~read'[c].torn => Sought(c)' = {}
    <2>1. stage'[c].kind = stage[c].kind
      BY DEF AuditKept
    <2>2. stage'[c] = stage[c] /\ ~purged /\ audits \subseteq audits'
      BY <1>2, <2>1 DEF AuditKept
    <2>3. asked'[c] = asked[c]
      BY <1>2, <2>2 DEF AuditKept
    <2>4. AuditFilter(asked[c]) \subseteq AuditFilter(asked[c])'
      BY <2>2, <2>3 DEF AuditFilter
    <2>5. Sought(c)' \subseteq Sought(c)
      BY <2>2 DEF Sought, OneOfItsTime
    <2>6. \A x : Cardinality(Newer(AuditFilter(asked[c]), x)) <= Cardinality(Newer(AuditFilter(asked[c]), x)')
                 /\ Cardinality(Newer(AuditFilter(asked[c]), x)) \in Nat
                 /\ Cardinality(Newer(AuditFilter(asked[c]), x)') \in Nat
      <3> TAKE x
      <3>1. Newer(AuditFilter(asked[c]), x) \subseteq Newer(AuditFilter(asked[c]), x)'
        BY <2>4 DEF Newer
      <3>2. Newer(AuditFilter(asked[c]), x)' \subseteq audits'
        BY DEF Newer, AuditFilter
      <3>3. IsFiniteSet(audits')
        BY RecordsFiniteNext DEF FiniteRecords
      <3> QED BY <3>1, <3>2, <3>3, FS_Subset, FS_CardinalityType
    <2>7. Skip(read[c].page) \in Nat
      <3>1. read[c].page \in Nat /\ read[c].page >= 1
        BY DEF AuditTypeInv, AuditTypeOK, Reading
      <3> QED BY <3>1, SkipNext
    <2>8. /\ read[c].before \subseteq AuditFilter(asked[c])
          /\ stage[c].at = "find" /\ stage[c].kind = "list" => read[c].pages = PagesOf(Cardinality(read[c].at))
          /\ stage[c].at \in {"count", "find"} /\ ~read[c].torn =>
               \A x \in Sought(c) : Cardinality(Newer(AuditFilter(asked[c]), x)) >= Skip(read[c].page)
          /\ stage[c].at = "done" /\ ~read[c].torn => Sought(c) = {}
      BY <1>2, <2>2 DEF Listing
    <2>9. ASSUME stage'[c].at \in {"count", "find"}, ~read'[c].torn, NEW x \in Sought(c)'
          PROVE  Cardinality(Newer(AuditFilter(asked[c]), x)') >= Skip(read'[c].page)
      <3>1. Cardinality(Newer(AuditFilter(asked[c]), x)) >= Skip(read[c].page)
        BY <2>2, <2>5, <2>8, <2>9
      <3> QED BY <2>6, <2>7, <3>1
    <2> QED BY <2>2, <2>4, <2>5, <2>8, <2>9
  <1> QED BY <1>1, <1>2 DEF Listing

Reads == \A c \in Calls : Listing(c)

LEMMA ReadTyped ==
  ASSUME AuditTypeInv, NEW c \in Calls
  PROVE  /\ read \in [Calls -> Reading] /\ read[c] \in Reading
         /\ read[c].page \in Nat /\ read[c].page >= 1 /\ read[c].before \subseteq Docs
         /\ asked \in [Calls -> Urls \cup {Nothing} \cup Lists]
         /\ stage \in [Calls -> [at : Stages, kind : Kinds, on : Servers]]
  <1>1. /\ read \in [Calls -> Reading] /\ read[c].page \in 1 .. Cardinality(Calls) + 1
        /\ asked \in [Calls -> Urls \cup {Nothing} \cup Lists]
        /\ stage \in [Calls -> [at : Stages, kind : Kinds, on : Servers]]
    BY DEF AuditTypeInv, AuditTypeOK
  <1>2. read[c] \in Reading
    BY <1>1
  <1>3. read[c].page \in Nat /\ read[c].before \subseteq Docs
    BY <1>2 DEF Reading
  <1> QED BY <1>1, <1>2, <1>3

LEMMA ListStart ==
  ASSUME AuditTypeInv, NEW c \in Calls, StartList(c), Listing(c)
  PROVE  Listing(c)'
  <1>1. PICK u \in {AnyUser} \cup AuditUsers, from \in {0, hour} :
          /\ asked' = [asked EXCEPT ![c] = [user |-> u, from |-> from, to |-> LastHour]]
          /\ read' = [read EXCEPT ![c].before = AuditFilter([user |-> u, from |-> from, to |-> LastHour])]
    BY DEF StartList
  <1> DEFINE list == [user |-> u, from |-> from, to |-> LastHour]
  <1>2. asked'[c] = list /\ read'[c].before = AuditFilter(list) /\ read'[c].page = read[c].page
    BY <1>1, ReadTyped DEF Reading
  <1> HIDE DEF list
  <1>3. /\ stage[c].at = "ready" /\ UNCHANGED <<audits, purged>>
        /\ (stage[c].kind = "list" /\ Move(c, "count")) \/ (stage[c].kind = "search" /\ Move(c, "find"))
    BY DEF StartList, Ready
  <1>4. /\ (stage[c].kind = "list" /\ stage'[c].at = "count") \/ (stage[c].kind = "search" /\ stage'[c].at = "find")
        /\ stage'[c].kind = stage[c].kind
    BY <1>3, MovedOne DEF Stages
  <1>5. AuditFilter(asked[c])' = AuditFilter(list)
    BY <1>2, <1>3 DEF AuditFilter
  <1>6. read'[c].page = 1 /\ Skip(1) = 0
    <2>1. read'[c].page = 1
      BY <1>2, <1>3 DEF Listing
    <2> QED BY <2>1, AuditAssumption DEF Skip
  <1>7. ASSUME NEW x PROVE Cardinality(Newer(AuditFilter(asked[c]), x)') >= 0
    <2>1. Newer(AuditFilter(asked[c]), x)' \subseteq audits
      BY <1>3 DEF Newer, AuditFilter
    <2>2. IsFiniteSet(audits)
      BY RecordsFinite DEF FiniteRecords
    <2>3. Cardinality(Newer(AuditFilter(asked[c]), x)') \in Nat
      BY <2>1, <2>2, FS_Subset, FS_CardinalityType
    <2> QED BY <2>3
  <1> QED BY <1>2, <1>4, <1>5, <1>6, <1>7 DEF Listing

LEMMA ListCount ==
  ASSUME AuditTypeInv, NEW c \in Calls, Count(c), Listing(c)
  PROVE  Listing(c)'
  <1> DEFINE docs == AuditFilter(asked[c])
             b == [read[c] EXCEPT !.pages = PagesOf(Cardinality(docs)), !.at = docs]
  <1>1. /\ stage[c].at = "count" /\ Move(c, "find") /\ read' = [read EXCEPT ![c] = b]
        /\ UNCHANGED <<audits, asked, purged>>
    BY ReadTyped DEF Count
  <1>2. /\ read'[c] = b /\ b.pages = PagesOf(Cardinality(b.at)) /\ b.before = read[c].before
        /\ b.seen = read[c].seen /\ b.page = read[c].page
    <2> HIDE DEF docs
    <2> QED BY <1>1, ReadTyped DEF Reading
  <1>3. b.torn = read[c].torn
    <2> HIDE DEF docs
    <2> QED BY ReadTyped DEF Reading
  <1>4. stage'[c].at = "find" /\ stage'[c].kind = stage[c].kind
    BY <1>1, MovedOne DEF Stages
  <1>5. AuditFilter(asked[c])' = AuditFilter(asked[c])
    BY <1>1 DEF AuditFilter
  <1> HIDE DEF b, docs
  <1>6. Sought(c)' = Sought(c)
    BY <1>1, <1>2 DEF Sought, OneOfItsTime
  <1>7. \A x : Newer(AuditFilter(asked[c]), x)' = Newer(AuditFilter(asked[c]), x)
    BY <1>5 DEF Newer
  <1> QED BY <1>1, <1>2, <1>3, <1>4, <1>5, <1>6, <1>7 DEF Listing

LEMMA ListFind ==
  ASSUME AuditTypeInv, NEW c \in Calls, Find(c), Listing(c)
  PROVE  Listing(c)'
  <1> DEFINE docs  == AuditFilter(asked[c])
             pages == IF stage[c].kind = "search" THEN PagesOf(Cardinality(docs)) ELSE read[c].pages
             more  == read[c].page < pages
             torn  == read[c].torn \/ (stage[c].kind = "list" /\ docs # read[c].at)
  <1> HIDE DEF torn
  <1>1. PICK page \in PageAt(docs, Skip(read[c].page)) :
          /\ read' = [read EXCEPT ![c].seen = @ \cup page,
                                  ![c].page = IF read[c].page < pages THEN @ + 1 ELSE @,
                                  ![c].pages = pages,
                                  ![c].torn = @ \/ (stage[c].kind = "list" /\ docs # read[c].at)]
    BY DEF Find
  <1>2. PICK t \in BOOLEAN : t = torn
    BY DEF torn
  <1> DEFINE next == IF more THEN read[c].page + 1 ELSE read[c].page
             seen == read[c].seen \cup page
             b == [read[c] EXCEPT !.seen = seen, !.page = next, !.pages = pages, !.torn = t]
  <1>3. read' = [read EXCEPT ![c] = b]
    <2>1. read' = [read EXCEPT ![c] = [read[c] EXCEPT !.seen = seen, !.page = next, !.pages = pages, !.torn = torn]]
      BY <1>1, ReadTyped DEF torn
    <2> QED BY <1>2, <2>1
  <1>4. /\ stage[c].at = "find" /\ UNCHANGED <<audits, asked, purged>>
        /\ more => (\E a \in {"count", "find"} : Move(c, a))
        /\ ~more => Move(c, "done")
    BY DEF Find
  <1>5. /\ stage'[c].kind = stage[c].kind
        /\ more => stage'[c].at \in {"count"} \cup (IF stage[c].kind = "list" THEN {} ELSE {"find"})
        /\ ~more => stage'[c].at = "done"
    <2>1. Move(c, IF more THEN IF stage[c].kind = "list" THEN "count" ELSE "find" ELSE "done")
      BY DEF Find
    <2> DEFINE a == IF more THEN IF stage[c].kind = "list" THEN "count" ELSE "find" ELSE "done"
    <2>2. a \in Stages
      BY DEF Stages
    <2>3. stage'[c].at = a /\ stage'[c].kind = stage[c].kind
      <3> HIDE DEF a
      <3>1. Move(c, a)
        BY <2>1 DEF a
      <3> QED BY <2>2, <3>1, MovedOne
    <2> HIDE DEF more
    <2> QED BY <2>3 DEF a
  <1>6. docs \in SUBSET Docs /\ docs \subseteq audits /\ IsFiniteSet(docs) /\ Cardinality(docs) \in Nat
    <2>1. docs \subseteq audits /\ audits \subseteq Docs
      BY DEF AuditFilter, AuditTypeInv, AuditTypeOK
    <2>2. IsFiniteSet(audits)
      BY RecordsFinite DEF FiniteRecords
    <2> HIDE DEF docs
    <2> QED BY <2>1, <2>2, FS_Subset, FS_CardinalityType
  <1>7. AuditFilter(asked[c])' = docs
    BY <1>4 DEF AuditFilter
  <1> HIDE DEF pages, more, next, docs, seen
  <1>8. read'[c] = b /\ b.before = read[c].before /\ b.seen = seen /\ b.page = next /\ b.pages = pages /\ b.at = read[c].at
    BY <1>3, ReadTyped DEF Reading
  <1>9. b.torn = t
    BY ReadTyped DEF Reading
  <1> HIDE DEF b
  <1>10. ASSUME stage[c].kind \in {"list", "search"}, ~purged
         PROVE  read[c].before \subseteq docs
    BY <1>4, <1>10 DEF Listing, docs
  <1>11. ASSUME stage[c].kind \in {"list", "search"}, ~purged, ~torn
         PROVE  pages = PagesOf(Cardinality(docs))
    <2>1. CASE stage[c].kind = "search"
      BY <2>1 DEF pages
    <2>2. CASE stage[c].kind = "list"
      <3>1. read[c].pages = PagesOf(Cardinality(read[c].at))
        BY <1>4, <1>11, <2>2 DEF Listing
      <3>2. docs = read[c].at
        BY <1>11, <2>2 DEF torn
      <3> QED BY <2>2, <3>1, <3>2 DEF pages
    <2> QED BY <1>11, <2>1, <2>2
  (* What is still to come is behind this page. *)
  <1>12. ASSUME stage[c].kind \in {"list", "search"}, ~purged, ~torn, NEW x \in Sought(c)'
         PROVE  /\ x \in docs /\ x \notin Newer(docs, x)
                /\ Cardinality(Newer(docs, x)) >= Skip(read[c].page) + PageSize
    <2>1. x \in read[c].before /\ x \notin seen /\ \A y \in audits : y.at = x.at => y = x
      BY <1>4, <1>8 DEF Sought, OneOfItsTime
    <2>2. x \in Sought(c) /\ x \notin page /\ x \in docs
      BY <1>10, <1>12, <2>1 DEF Sought, OneOfItsTime, seen
    <2>3. Cardinality(Newer(docs, x)) >= Skip(read[c].page)
      <3>1. ~read[c].torn
        BY <1>12 DEF torn
      <3> QED BY <1>4, <1>12, <2>2, <3>1 DEF Listing, docs
    <2>4. Skip(read[c].page) \in Nat
      BY ReadTyped, SkipNext
    <2>5. \A y \in docs : y.at = x.at => y = x
      BY <1>6, <2>1
    <2>6. Cardinality(Newer(docs, x)) >= Skip(read[c].page) + PageSize
      BY <1>1, <1>6, <2>2, <2>3, <2>4, <2>5, PageLeaves
    <2>7. x.at \in Nat
      BY <1>6, <2>2 DEF Docs
    <2> QED BY <2>2, <2>6, <2>7 DEF Newer
  <1>13. ASSUME stage[c].kind \in {"list", "search"}, ~purged, ~torn, more, NEW x \in Sought(c)'
         PROVE  Cardinality(Newer(docs, x)) >= Skip(next)
    <2>1. next = read[c].page + 1
      BY <1>13 DEF next
    <2>2. Skip(next) = Skip(read[c].page) + PageSize
      BY <2>1, ReadTyped, SkipNext
    <2> QED BY <1>12, <1>13, <2>2
  <1>14. ASSUME stage[c].kind \in {"list", "search"}, ~purged, ~torn, ~more
         PROVE  Sought(c)' = {}
    <2> SUFFICES ASSUME NEW x \in Sought(c)' PROVE FALSE
      OBVIOUS
    <2>1. /\ x \in docs /\ x \notin Newer(docs, x)
          /\ Cardinality(Newer(docs, x)) >= Skip(read[c].page) + PageSize
      BY <1>12, <1>14
    <2> DEFINE N == Newer(docs, x)
    <2>2. N \subseteq docs
      BY DEF Newer
    <2>3. IsFiniteSet(N) /\ Cardinality(N) \in Nat /\ Cardinality(N) <= Cardinality(docs) /\ N # docs
          /\ (Cardinality(docs) = Cardinality(N) => docs = N)
      <3>1. N # docs
        BY <2>1
      <3> HIDE DEF N
      <3> QED BY <1>6, <2>2, <3>1, FS_Subset, FS_CardinalityType
    <2>4. Cardinality(N) < Cardinality(docs)
      <3> HIDE DEF N
      <3> QED BY <1>6, <2>3
    <2>5. ~ (read[c].page < PagesOf(Cardinality(docs)))
      BY <1>11, <1>14 DEF more
    <2>6. Cardinality(N) >= Skip(read[c].page) + PageSize
      BY <2>1
    <2> HIDE DEF N
    <2> QED BY <1>6, <2>3, <2>4, <2>5, <2>6, ReadTyped, LastPage
  <1>15. \A x : Newer(AuditFilter(asked[c]), x)' = Newer(docs, x)
    BY <1>7 DEF Newer
  <1>16. stage'[c].at # "ready" /\ ~(stage'[c].at = "find" /\ stage'[c].kind = "list")
    BY <1>5
  <1>17. stage'[c].at \in {"count", "find"} => more
    BY <1>5
  <1>18. stage'[c].at = "done" => ~more
    BY <1>5
  <1>19. ~read'[c].torn => ~torn
    BY <1>2, <1>8, <1>9
  <1>20. stage'[c].kind \in {"list", "search"} /\ ~purged' =>
           /\ stage[c].kind \in {"list", "search"} /\ ~purged
           /\ read'[c].before \subseteq AuditFilter(asked[c])'
    BY <1>4, <1>5, <1>7, <1>8, <1>10
  <1>21. stage'[c].kind \in {"list", "search"} /\ ~purged' /\ stage'[c].at \in {"count", "find"} /\ ~read'[c].torn =>
           \A x \in Sought(c)' : Cardinality(Newer(AuditFilter(asked[c]), x)') >= Skip(read'[c].page)
    BY <1>8, <1>13, <1>15, <1>17, <1>19, <1>20
  <1>22. stage'[c].kind \in {"list", "search"} /\ ~purged' /\ stage'[c].at = "done" /\ ~read'[c].torn =>
           Sought(c)' = {}
    BY <1>14, <1>18, <1>19, <1>20
  <1> QED BY <1>16, <1>20, <1>21, <1>22 DEF Listing

LEMMA ReadsStep == AuditTypeInv /\ Reads /\ [AuditNext]_auVars => Reads'
  <1> SUFFICES ASSUME AuditTypeInv, Reads, [AuditNext]_auVars, NEW c \in Calls PROVE Listing(c)'
    BY DEF Reads
  <1>1. AuditTypeInv' /\ AuditKept /\ Listing(c)
    BY AuditTypeStep, StepKeeps DEF Reads
  (* A step that moves a request and reads no list. *)
  <1>2. ASSUME NEW o \in Calls, NEW a \in Stages, Move(o, a), a # "ready",
               stage[o].kind \notin {"list", "search"}, UNCHANGED read
        PROVE  Listing(c)'
    <2>1. stage'[o].at = a /\ (c # o => stage'[c] = stage[c])
      BY <1>2, MovedOne
    <2> QED BY <1>1, <1>2, <2>1, ListingFrame
  <1>3. ASSUME NEW o \in Calls, Login(o) PROVE Listing(c)'
    <2>1. PICK s \in Servers : stage' = [stage EXCEPT ![o].at = "handling", ![o].on = s]
      BY <1>3 DEF Login
    <2>2. stage[o].kind = "login" /\ UNCHANGED read
      BY <1>3 DEF Login, Ready
    <2>3. stage'[o].at = "handling" /\ (c # o => stage'[c] = stage[c])
      BY <2>1, Numbers
    <2> QED BY <1>1, <2>2, <2>3, ListingFrame
  <1>4. ASSUME NEW o \in Calls, Operate(o) \/ RegisterEvent(o) \/ EliminarRegistrosUsuario(o) PROVE Listing(c)'
    <2>1. stage[o].kind \notin {"list", "search"} /\ UNCHANGED read
      BY <1>4 DEF Operate, RegisterEvent, EliminarRegistrosUsuario, Ready
    <2>2. \E a \in {"handling", "done"} : Move(o, a)
      <3>1. CASE Operate(o) BY <3>1 DEF Operate
      <3>2. CASE RegisterEvent(o) BY <3>2 DEF RegisterEvent
      <3>3. CASE EliminarRegistrosUsuario(o) BY <3>3 DEF EliminarRegistrosUsuario
      <3> QED BY <1>4, <3>1, <3>2, <3>3
    <2> QED BY <1>2, <2>1, <2>2 DEF Stages
  <1>5. ASSUME NEW o \in Calls, Answered(o) \/ LookFlag(o) \/ TapInsert(o) \/ SetFlag(o) PROVE Listing(c)'
    <2>1. stage[o].at \in {"handling", "tap", "insert", "flag"} /\ UNCHANGED read
      BY <1>5 DEF Answered, LookFlag, TapInsert, SetFlag
    <2>2. stage[o].kind \in {"login", "operation"}
      BY <2>1 DEF AuditTypeInv, Doing
    <2>3. \E a \in {"tap", "insert", "flag", "done"} : Move(o, a)
      <3>1. CASE Answered(o) BY <3>1 DEF Answered
      <3>2. CASE LookFlag(o) BY <3>2 DEF LookFlag
      <3>3. CASE TapInsert(o) BY <3>3 DEF TapInsert, AfterInsert
      <3>4. CASE SetFlag(o) BY <3>4 DEF SetFlag
      <3> QED BY <1>5, <3>1, <3>2, <3>3, <3>4
    <2> QED BY <1>2, <2>1, <2>2, <2>3 DEF Stages
  <1>6. ASSUME NEW o \in Calls, StartList(o) \/ Count(o) \/ Find(o) PROVE Listing(c)'
    <2>1. CASE o = c
      BY <1>1, <1>6, <2>1, ListStart, ListCount, ListFind
    <2>2. CASE o # c
      <3>1. (\E a \in Stages : Move(o, a)) /\ (\E r : read' = [read EXCEPT ![o] = r])
        <4>1. CASE StartList(o)
          <5>1. \E u, from : read' = [read EXCEPT ![o].before = AuditFilter([user |-> u, from |-> from, to |-> LastHour])]
            BY <4>1 DEF StartList
          <5>2. \E a \in {"count", "find"} : Move(o, a)
            BY <4>1 DEF StartList
          <5> QED BY <5>1, <5>2 DEF Stages
        <4>2. CASE Count(o) BY <4>2 DEF Count, Stages
        <4>3. CASE Find(o)
          <5>1. \E r : read' = [read EXCEPT ![o] = r]
            BY <4>3 DEF Find
          <5>2. \E a \in {"count", "find", "done"} : Move(o, a)
            BY <4>3 DEF Find
          <5> QED BY <5>1, <5>2 DEF Stages
        <4> QED BY <1>6, <4>1, <4>2, <4>3
      <3>2. stage'[c] = stage[c] /\ read'[c] = read[c]
        BY <2>2, <3>1, MovedOne, ReadTyped
      <3> QED BY <1>1, <3>2, ListingFrame
    <2> QED BY <2>1, <2>2
  <1>7. ASSUME NEW s \in Servers, Restart(s) PROVE Listing(c)'
    <2>1. UNCHANGED read /\ stage' = [o \in Calls |-> IF stage[o].on = s /\ stage[o].at \notin {"ready", "done"}
                                                     THEN [stage[o] EXCEPT !.at = "dead"] ELSE stage[o]]
      BY <1>7 DEF Restart
    <2>2. stage'[c] = stage[c] \/ stage'[c].at = "dead"
      BY <2>1, Numbers
    <2> QED BY <1>1, <2>1, <2>2, ListingFrame
  <1>8. CASE PassHour \/ UNCHANGED auVars
    <2>1. UNCHANGED <<stage, read>>
      BY <1>8 DEF PassHour, auVars
    <2> QED BY <1>1, <2>1, ListingFrame
  <1> QED
    BY <1>3, <1>4, <1>5, <1>6, <1>7, <1>8 DEF AuditNext

(* A client that reads a list to its end misses no record that was there   *)
(* at the start, whatever is added meanwhile and however many pages it has,*)
(* except one of a time that another has, unless some were deleted or one  *)
(* was added between a count and its search.                               *)
THEOREM PagesMissNothing == AuditSpec => []PagesCover
  <1>1. AuditInit => Reads
    <2> SUFFICES ASSUME AuditInit, NEW c \in Calls PROVE Listing(c)
      BY DEF Reads
    <2>1. stage[c].at = "ready" /\ read[c].page = 1
      BY DEF AuditInit, EmptyRead
    <2> QED BY <2>1 DEF Listing
  <1>2. Reads => PagesCover
    <2> SUFFICES ASSUME Reads, NEW c \in Calls, stage[c].at = "done", stage[c].kind \in {"list", "search"},
                        ~purged, ~read[c].torn, NEW x \in read[c].before
                 PROVE  x \in read[c].seen \/ \E y \in audits \ {x} : y.at = x.at
      BY DEF PagesCover
    <2>1. Sought(c) = {}
      BY DEF Reads, Listing
    <2> QED BY <2>1 DEF Sought, OneOfItsTime
  <1> QED BY <1>1, <1>2, ReadsStep, AuditTypeInit, AuditTypeStep, PTL DEF AuditSpec
-----------------------------------------------------------------------------
(* ALL SIDE BY SIDE *)

(* A behaviour of all is one of each: what holds of any holds of it.       *)
THEOREM RecordsAreAll == RecordsSpec => PinSpec /\ AuditSpec /\ ReadsSpec
  <1>1. RecordsInit => PinInit /\ AuditInit /\ ReadsInit
    BY DEF RecordsInit
  <1>2. [PinPart \/ AuditPart \/ ReadsPart]_<<vars, auVars, readVars, part>> =>
          [PinNext]_vars /\ [AuditNext]_auVars /\ [ReadsNext]_readVars
    BY DEF PinPart, AuditPart, ReadsPart
  <1> QED BY <1>1, <1>2, PTL DEF RecordsSpec, PinSpec, AuditSpec, ReadsSpec

(* The parts that keep records are of their types, together. *)
THEOREM RecordsTypesCorrect == RecordsSpec => []RecordsTypeOK
  <1>1. PinTypeOK /\ AuditTypeOK => RecordsTypeOK
    BY DEF RecordsTypeOK
  <1> QED BY <1>1, RecordsAreAll, PinTypesCorrect, AuditTypesCorrect, PTL
=============================================================================
