------------------------------ MODULE PinStore ------------------------------
(***************************************************************************)
(* The security PINs of SettingsService.  All PINs of all devices are one  *)
(* array in one document of collection settings.  Creating a PIN and the   *)
(* two clean-ups that a validation runs each read the array, change it in  *)
(* memory and write all of it back, with an await in between and no        *)
(* version check, from any number of processes.  The document itself, and  *)
(* the one of the catalogue's global PIN, are created by a constructor     *)
(* that does not wait for it, so requests may come first.                  *)
(*                                                                         *)
(* The array is a set here: its order decides nothing but which of several *)
(* creators of one code is named.                                          *)
(***************************************************************************)
EXTENDS Integers

CONSTANTS
  Boots,       \* processes that start
  Creators,    \* requests to create a PIN
  Validators,  \* requests to validate one
  Setters,     \* requests to set the global PIN
  Codes,       \* hashes of PINs
  CodeOf,      \* the code a request is about
  FirstCode,   \* the global PIN a process creates
  NoDoc,       \* a document that does not exist: no array of PINs
  Dates,       \* expirations a client may ask for
  Life,        \* 15 minutes, when it asks for none
  Day,         \* how long the second clean-up spares an expired PIN
  MaxTime,     \* bound on time, for model checking
  MaxFaults    \* bound on failing calls, for model checking

Requests == Creators \cup Validators \cup Setters

(* The field by stands for userId and createdAt: the request that made it. *)
Pin == [code : Codes, exp : Nat, by : Creators]

ASSUME CodeAssumption == CodeOf \in [Requests -> Codes] /\ FirstCode \in Codes

ASSUME ActorAssumption ==
  /\ Boots \cap Requests = {} /\ Creators \cap Validators = {}
  /\ Creators \cap Setters = {} /\ Validators \cap Setters = {}

ASSUME TimeAssumption == Dates \subseteq Nat /\ Life \in Nat /\ Day \in Nat
                         /\ MaxTime \in Nat /\ MaxFaults \in Nat

ASSUME NoDocAssumption == NoDoc \notin Codes /\ NoDoc \notin SUBSET Pin

VARIABLES
  pins,     \* document DEVICE_SECURITY_PINS: its array
  global,   \* document CATALOG_SECURITY_PIN: its code
  now,      \* the clock
  pc,       \* where each request and each starting process is
  buf,      \* the array a request will write back
  verdict,  \* what a validation found
  made,     \* history: the PINs that were shown to their creators
  told,     \* history: the PINs a validation said were expired
  exposed,  \* history: requests that wrote when another held an older array
  faults    \* failing calls so far

vars == <<pins, global, now, pc, buf, verdict, made, told, exposed, faults>>

Actors == Boots \cup Requests

Control == {"idle", "create", "clean", "cleaning", "old", "deleting", "done", "failed"}

Verdicts == {"none", "valid", "expired", "wrong"}

(* The type invariant. *)
PinTypeOK ==
  /\ pins \in (SUBSET Pin) \cup {NoDoc}
  /\ global \in Codes \cup {NoDoc}
  /\ now \in 0 .. MaxTime
  /\ pc \in [Actors -> Control]
  /\ buf \in [Requests -> SUBSET Pin]
  /\ verdict \in [Validators -> Verdicts]
  /\ made \in SUBSET Pin
  /\ told \in [Validators -> SUBSET Pin]
  /\ exposed \in SUBSET Requests
  /\ faults \in 0 .. MaxFaults
-----------------------------------------------------------------------------
Live(ps) == {p \in ps : p.exp > now}

Goto(a, label) == pc' = [pc EXCEPT ![a] = label]

NoFault == faults' = faults

(* A call that MongoDB rejects.                                            *)
Fault == faults < MaxFaults /\ faults' = faults + 1
-----------------------------------------------------------------------------
PinInit ==
  /\ pins = NoDoc /\ global = NoDoc
  /\ now = 0
  /\ pc = [a \in Actors |-> "idle"]
  /\ buf = [r \in Requests |-> {}]
  /\ verdict = [v \in Validators |-> "none"]
  /\ made = {} /\ exposed = {} /\ told = [v \in Validators |-> {}]
  /\ faults = 0

(* A process starts: it asks whether the documents exist.  What it then    *)
(* creates is refused, by the unique key, if another was faster.           *)
BootLook(b) ==
  /\ pc[b] = "idle"
  /\ \/ pins # NoDoc /\ Goto(b, "done") /\ NoFault
     \/ pins = NoDoc /\ Goto(b, "create") /\ NoFault
     \/ Fault /\ Goto(b, "failed")
  /\ UNCHANGED <<pins, global, now, buf, verdict, made, told, exposed>>

MutCreated == {}
(* create, under the unique index on key. *)
Created == IF pins = NoDoc THEN {} ELSE pins

BootCreate(b) ==
  /\ pc[b] = "create"
  /\ pins' = Created
  /\ Goto(b, "done")
  /\ UNCHANGED <<global, now, buf, verdict, made, told, exposed, faults>>

(* The same of the global PIN, whose look and creation nothing can tell    *)
(* apart from one step: it is refused if the document exists by then.      *)
BootGlobal(b) ==
  /\ pc[b] # "idle" /\ global = NoDoc
  /\ global' = FirstCode
  /\ UNCHANGED <<pins, now, pc, buf, verdict, made, told, exposed, faults>>

(* updateSecurityPin: an upsert. *)
UpdateSecurityPin(r) ==
  /\ pc[r] = "idle"
  /\ \/ NoFault /\ Goto(r, "done") /\ global' = CodeOf[r]
     \/ Fault /\ Goto(r, "failed") /\ global' \in {global, CodeOf[r]}
  /\ UNCHANGED <<pins, now, buf, verdict, made, told, exposed>>

MutNewPin(r, e) == [code |-> CodeOf[r], exp |-> e, by |-> NoDoc]
(* A PIN as it is stored. *)
NewPin(r, e) == [code |-> CodeOf[r], exp |-> e, by |-> r]

Writing == {"create", "cleaning", "deleting"}

(* Requests that hold an array they will write back, other than r.         *)
Holding(r) == {q \in Requests \ {r} : pc[q] \in Writing}

(* An updateOne with the array of r.  The document is there, since r read  *)
(* it and none is ever deleted.                                            *)
WriteBack(r) ==
  /\ pins' = buf[r]
  /\ buf' = [buf EXCEPT ![r] = {}]
  /\ exposed' = IF Holding(r) = {} THEN exposed ELSE exposed \cup {r}

(* An updateOne that fails, after or before the write.                     *)
FailWriteBack(r) ==
  /\ Fault
  /\ \/ WriteBack(r)
     \/ buf' = [buf EXCEPT ![r] = {}] /\ UNCHANGED <<pins, exposed>>

(* createSecurityPinWithDevice: read the array and push the new PIN ...    *)
CreateRead(r) ==
  /\ pc[r] = "idle"
  /\ \/ (pins = NoDoc /\ NoFault) /\ Goto(r, "failed") /\ UNCHANGED buf
     \/ Fault /\ Goto(r, "failed") /\ UNCHANGED buf
     \/ /\ pins # NoDoc /\ NoFault
        /\ \E e \in Dates \cup {now + Life} :
             buf' = [buf EXCEPT ![r] = pins \cup {NewPin(r, e)}]
        /\ Goto(r, "create")
  /\ UNCHANGED <<pins, global, now, verdict, made, told, exposed>>

(* ... and write it.  The client is then shown the PIN.                    *)
CreateWrite(r) ==
  /\ pc[r] = "create"
  /\ \/ /\ NoFault /\ WriteBack(r)
        /\ made' = made \cup {p \in buf[r] : p.by = r}
        /\ Goto(r, "done")
     \/ FailWriteBack(r) /\ Goto(r, "failed") /\ UNCHANGED made
  /\ UNCHANGED <<global, now, verdict, told>>

Matching(ps, code) == {p \in ps : p.code = code}

Judge(ps, code) ==
  IF Matching(Live(ps), code) # {} THEN "valid"
  ELSE IF Matching(ps, code) # {} THEN "expired" ELSE "wrong"

(* validateSecurityPinWithDevice, to which validateSecurityPin leaves the  *)
(* global PIN too: judge by the array as it is, then clean it.             *)
ValidateRead(r) ==
  /\ pc[r] = "idle"
  /\ \/ (pins = NoDoc /\ NoFault) /\ Goto(r, "failed") /\ UNCHANGED <<verdict, told>>
     \/ Fault /\ Goto(r, "failed") /\ UNCHANGED <<verdict, told>>
     \/ /\ pins # NoDoc /\ NoFault
        /\ verdict' = [verdict EXCEPT ![r] = Judge(pins, CodeOf[r])]
        /\ told' = [told EXCEPT ![r] = IF verdict'[r] = "expired"
                                       THEN Matching(pins, CodeOf[r]) ELSE {}]
        /\ Goto(r, IF pins = {} THEN "done"
                   ELSE IF Live(pins) # pins THEN "clean" ELSE "old")
  /\ UNCHANGED <<pins, global, now, buf, made, exposed>>

MutKeptByClean(ps) == ps \ Live(ps)
(* What the first clean-up keeps. *)
KeptByClean(ps) == Live(ps)

(* cleanExpiredPins; its errors are swallowed.                             *)
CleanRead(r) ==
  /\ pc[r] = "clean"
  /\ \/ (pins = {} /\ NoFault) /\ Goto(r, "old") /\ UNCHANGED buf
     \/ Fault /\ Goto(r, "old") /\ UNCHANGED buf
     \/ /\ pins # {} /\ NoFault
        /\ buf' = [buf EXCEPT ![r] = KeptByClean(pins)]
        /\ Goto(r, "cleaning")
  /\ UNCHANGED <<pins, global, now, verdict, made, told, exposed>>

CleanWrite(r) ==
  /\ pc[r] = "cleaning"
  /\ (NoFault /\ WriteBack(r)) \/ FailWriteBack(r)
  /\ Goto(r, "old")
  /\ UNCHANGED <<global, now, verdict, made, told>>

(* What the second clean-up keeps.                                         *)
Fresh(ps) == {p \in ps : p.exp > now \/ p.exp > now - Day}

(* cleanOldExpiredPins; likewise, and it only writes if it dropped any.    *)
OldRead(r) ==
  /\ pc[r] = "old"
  /\ \/ Fault /\ Goto(r, "done") /\ UNCHANGED buf
     \/ /\ Fresh(pins) = pins /\ NoFault
        /\ Goto(r, "done") /\ UNCHANGED buf
     \/ /\ Fresh(pins) # pins /\ NoFault
        /\ buf' = [buf EXCEPT ![r] = Fresh(pins)]
        /\ Goto(r, "deleting")
  /\ UNCHANGED <<pins, global, now, verdict, made, told, exposed>>

OldWrite(r) ==
  /\ pc[r] = "deleting"
  /\ (NoFault /\ WriteBack(r)) \/ FailWriteBack(r)
  /\ Goto(r, "done")
  /\ UNCHANGED <<global, now, verdict, made, told>>

Tick ==
  /\ now < MaxTime
  /\ now' = now + 1
  /\ UNCHANGED <<pins, global, pc, buf, verdict, made, told, exposed, faults>>

PinNext ==
  \/ \E b \in Boots : BootLook(b) \/ BootCreate(b) \/ BootGlobal(b)
  \/ \E r \in Setters : UpdateSecurityPin(r)
  \/ \E r \in Creators : CreateRead(r) \/ CreateWrite(r)
  \/ \E r \in Validators : \/ ValidateRead(r) \/ CleanRead(r) \/ CleanWrite(r)
                           \/ OldRead(r) \/ OldWrite(r)
  \/ Tick

PinSpec == PinInit /\ [][PinNext]_vars
-----------------------------------------------------------------------------
(* A PIN that was shown to its creator is in the store until it expires,   *)
(* unless, when it was written, another request held an older array that   *)
(* it had still to write back: creations and clean-ups lose it in no other *)
(* way, and no process that starts loses any.                              *)
IssuedPinsKept ==
  pins # NoDoc => \A p \in made : p.exp > now /\ p.by \notin exposed => p \in pins

(* "El PIN de seguridad ha expirado y será eliminado": the PINs of which a *)
(* validation says so are gone when it answers, and never come back, unless*)
(* a call failed or a request wrote back an array read before a clean-up.  *)
ExpiredPinsGo ==
  \A r \in Validators :
    pc[r] = "done" /\ faults = 0 /\ exposed \cap Validators = {} => told[r] \cap pins = {}
=============================================================================
