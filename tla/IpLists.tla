------------------------------- MODULE IpLists -------------------------------
(***************************************************************************)
(* The lists of addresses of SecurityService, the middleware that asks     *)
(* them at every request, and the violations that SecurityController tells.*)
(*                                                                         *)
(* There is one document for an address at most, since ip alone is unique, *)
(* and a TTL index deletes it when its expiration has passed.  Additions   *)
(* and removals are one call each, which the decorator @Retry means to     *)
(* repeat when it fails.  The middleware looks at the lists in calls of    *)
(* its own, between which they change.  An address stands for a valid one  *)
(* in normal form: what validateAndNormalizeIp refuses is answered at once.*)
(***************************************************************************)
EXTENDS Integers, FiniteSets

CONSTANTS
  Ips,          \* addresses
  Admins,       \* requests to change a list
  Visitors,     \* requests that pass the middleware
  Reporters,    \* requests to tell a violation or to check an address
  NoIp,         \* no document; no address
  Attempts,     \* the tries @Retry is configured to make
  Terms,        \* expirations a client may ask for; NotGiven and Null are two more
  ViolationPoints, \* the points of the types of violation
  Threshold,    \* 100: POINTS_THRESHOLD, RISK_THRESHOLDS.HIGH, pointThresholds
  OneDay,       \* 24 hours
  LastTime,     \* bound on time, for model checking
  MaxFailures   \* bound on failing calls, for model checking

Lists == {"whitelist", "blacklist"}

(* An expiration that is absent, and one that is null, which is stored.    *)
NotGiven == 0
Null == -1

Doc == [list : Lists, active : BOOLEAN, exp : Nat \cup {Null}, points : Nat]

ASSUME IpAssumption ==
  /\ Attempts \in Nat \ {0} /\ Terms \subseteq Nat \cup {Null} /\ OneDay \in Nat \ {0}
  /\ ViolationPoints \subseteq Nat /\ Threshold \in Nat \ {0}
  /\ LastTime \in Nat /\ MaxFailures \in Nat
  /\ NoIp \notin Ips \cup Doc

VARIABLES
  ipList,   \* per address, its document or NoIp
  time,     \* the clock
  admin,    \* per request to change a list, what it is and where
  visit,    \* per request, its address, where it is and what it was answered
  logged,   \* per address, the points that log entries of type security tell
  general,     \* per address, the points of violations told by general entries
  reports,  \* what a request to check an address answered
  alone,    \* history: changes during and after which no other was asked
  stood,    \* history: visits whose address was on the blacklist all through
  was,      \* history: visits whose address was on it at some moment
  failures  \* calls that failed so far

ipVars == <<ipList, time, admin, visit, logged, general, reports, alone, stood, was, failures>>

Unreported == [at |-> "ready", points |-> 0, block |-> FALSE]

(* The type invariant. *)
IpTypeOK ==
  /\ ipList \in [Ips -> Doc \cup {NoIp}]
  /\ time \in 0 .. LastTime
  /\ \A a \in Admins :
       /\ admin[a].at \in {"ready", "try", "done", "failed"}
       /\ admin[a].op \in {"add", "remove"} /\ admin[a].list \in Lists
       /\ admin[a].ip \in Ips \cup {NoIp} /\ admin[a].exp \in Terms \cup {NotGiven}
       /\ admin[a].tries \in 0 .. Attempts
  /\ \A v \in Visitors :
       /\ visit[v].at \in {"ready", "white", "black", "points", "done"}
       /\ visit[v].ip \in Ips \cup {NoIp}
       /\ visit[v].answer \in {"none", "next", "blocked", "points", "invalid"}
  /\ logged \in [Ips -> Nat] /\ general \in [Ips -> Nat]
  /\ \A r \in Reporters : /\ reports[r].at \in {"ready", "told", "counted", "refused"}
                          /\ reports[r].points \in 0 .. Threshold /\ reports[r].block \in BOOLEAN
  /\ alone \subseteq Admins /\ stood \subseteq Visitors /\ was \subseteq Visitors
  /\ failures \in 0 .. MaxFailures
-----------------------------------------------------------------------------
(* What the queries ask of an expiration: that there is none, or that it is*)
(* a later date.  Null is neither.                                         *)
Unexpired(d) == d.exp = NotGiven \/ d.exp > time

MutIsInList(ip, list) ==
  ipList[ip] # NoIp /\ ipList[ip].list = list /\ Unexpired(ipList[ip])
(* isInList. *)
IsInList(ip, list) ==
  /\ ipList[ip] # NoIp
  /\ ipList[ip].list = list /\ ipList[ip].active /\ Unexpired(ipList[ip])

GetList(list) == {ip \in Ips : IsInList(ip, list)}

(* getPoints; how old an entry may be is left out: none has points.        *)
GetPoints(ip) == IF ipList[ip] # NoIp /\ ipList[ip].active THEN ipList[ip].points ELSE 0

(* Whether the upsert of addToList meets the unique index on ip.           *)
Upsertable(ip, list) == ipList[ip] # NoIp => ipList[ip].list = list

MutUpserted(ip, list, exp, points) ==
  IF ipList[ip] # NoIp THEN [ipList[ip] EXCEPT !.exp = exp]
  ELSE [list |-> list, active |-> TRUE, points |-> points, exp |-> exp]
(* The document it leaves: what is not given is not set.                   *)
Upserted(ip, list, exp, points) ==
  [list |-> list, active |-> TRUE, points |-> points,
   exp |-> IF exp = NotGiven /\ ipList[ip] # NoIp THEN ipList[ip].exp ELSE exp]

Removed(ip, list) ==
  IF ipList[ip] # NoIp /\ ipList[ip].list = list
  THEN [ipList[ip] EXCEPT !.active = FALSE] ELSE ipList[ip]

(* logSecurityViolation: an entry of type security.                        *)
LogSecurityViolation(ip, points) == logged' = [logged EXCEPT ![ip] = @ + points]

Fails == failures < MaxFailures /\ failures' = failures + 1

Blacklisted(d) == d # NoIp /\ d.list = "blacklist" /\ d.active /\ Unexpired(d)

(* The histories of the visits, when the lists become as given.            *)
Watch(lists) ==
  LET On(v) == visit[v].at \notin {"ready", "done"}
      Black(v) == Blacklisted(lists[visit[v].ip])
  IN  /\ stood' = {v \in stood : On(v) => Black(v)}
      /\ was' = was \cup {v \in Visitors : On(v) /\ Black(v)}

SetLists(lists) == ipList' = lists /\ Watch(lists)
-----------------------------------------------------------------------------
IpInit ==
  /\ ipList = [ip \in Ips |-> NoIp]
  /\ time = 0 /\ failures = 0
  /\ admin = [a \in Admins |-> [at |-> "ready", op |-> "add", list |-> "whitelist",
                                ip |-> NoIp, exp |-> NotGiven, tries |-> 0]]
  /\ visit = [v \in Visitors |-> [at |-> "ready", ip |-> NoIp, answer |-> "none"]]
  /\ logged = [ip \in Ips |-> 0] /\ general = [ip \in Ips |-> 0]
  /\ reports = [r \in Reporters |-> Unreported]
  /\ alone = {} /\ stood = {} /\ was = {}

InFlight(ip) == {a \in Admins : admin[a].at = "try" /\ admin[a].ip = ip}

(* The endpoints of the lists: a request to add or to remove an address.   *)
Ask(a) ==
  /\ admin[a].at = "ready"
  /\ \E op \in {"add", "remove"}, list \in Lists, ip \in Ips, exp \in Terms :
       /\ op = "remove" => exp = NotGiven
       /\ admin' = [admin EXCEPT ![a] = [at |-> "try", op |-> op, list |-> list, ip |-> ip,
                                         exp |-> exp, tries |-> 1]]
       /\ alone' = {b \in alone : admin[b].ip # ip} \cup (IF InFlight(ip) = {} THEN {a} ELSE {})
  /\ UNCHANGED <<ipList, time, visit, logged, general, reports, stood, was, failures>>

(* AppLoggerService.logError calls the method of pino that has the name of *)
(* the level, and throws if there is none.                                 *)
PinoLevels == {"trace", "debug", "info", "warn", "error", "fatal"}

Logs(level) == level \in PinoLevels

TriesLeft(a) == admin[a].tries < Attempts

(* @Retry: a try that failed is to be followed by another, up to Attempts. *)
(* It is reported first, and as the report throws, none follows.           *)
Retry(a) ==
  IF TriesLeft(a) /\ Logs("warning")
  THEN admin' = [admin EXCEPT ![a].tries = @ + 1]
  ELSE admin' = [admin EXCEPT ![a].at = "failed"]

Succeed(a) == admin' = [admin EXCEPT ![a].at = "done"]

(* The call of a try that fails, after or before it took effect.           *)
FailTry(a, lists) ==
  /\ Fails /\ Retry(a)
  /\ SetLists(lists) \/ SetLists(ipList)
  /\ UNCHANGED logged

AddToList(a) ==
  LET ip == admin[a].ip  list == admin[a].list
      lists == [ipList EXCEPT ![ip] = Upserted(ip, list, admin[a].exp, 0)]
  IN  /\ admin[a].at = "try" /\ admin[a].op = "add"
      /\ \/ /\ ~Upsertable(ip, list) /\ Retry(a)
            /\ UNCHANGED <<ipList, logged, stood, was, failures>>
         \/ /\ Upsertable(ip, list) /\ Succeed(a)
            /\ SetLists(lists) /\ LogSecurityViolation(ip, 0)
            /\ UNCHANGED failures
         \/ Upsertable(ip, list) /\ FailTry(a, lists)
      /\ UNCHANGED <<time, visit, general, reports, alone>>

RemoveFromList(a) ==
  LET ip == admin[a].ip
      lists == [ipList EXCEPT ![ip] = Removed(ip, admin[a].list)]
  IN  /\ admin[a].at = "try" /\ admin[a].op = "remove"
      /\ \/ /\ Succeed(a) /\ SetLists(lists) /\ LogSecurityViolation(ip, 0)
            /\ UNCHANGED failures
         \/ FailTry(a, lists)
      /\ UNCHANGED <<time, visit, general, reports, alone>>

(* The TTL index. *)
Expire(ip) ==
  /\ ipList[ip] # NoIp /\ ipList[ip].exp \in 1 .. time
  /\ SetLists([ipList EXCEPT ![ip] = NoIp])
  /\ UNCHANGED <<time, admin, visit, logged, general, reports, alone, failures>>

PassTime ==
  /\ time < LastTime
  /\ time' = time + 1
  /\ LET Gone(d) == d # NoIp /\ d.exp \in 1 .. time + 1
     IN  stood' = {v \in stood : visit[v].at = "done" \/ ~Gone(ipList[visit[v].ip])}
  /\ UNCHANGED <<ipList, admin, visit, logged, general, reports, alone, was, failures>>
-----------------------------------------------------------------------------
(* IpFilterMiddleware, of a request that is neither local in development   *)
(* nor Railway's own: these go on without a look at the lists.             *)
Arrive(v) ==
  /\ visit[v].at = "ready"
  /\ \E ip \in Ips :
       /\ visit' = [visit EXCEPT ![v].at = "white", ![v].ip = ip]
       /\ LET on == IF Blacklisted(ipList[ip]) THEN {v} ELSE {}
          IN  stood' = stood \cup on /\ was' = was \cup on
  /\ UNCHANGED <<ipList, time, admin, logged, general, reports, alone, failures>>

Answer(v, answer) == visit' = [visit EXCEPT ![v].at = "done", ![v].answer = answer]

Look(v, at) == visit' = [visit EXCEPT ![v].at = at]

(* A look at a list that fails says no.                                    *)
FailedLook(v) == Fails /\ stood' = stood \ {v} /\ UNCHANGED was

GoodLook == UNCHANGED <<stood, was, failures>>

LookWhite(v) ==
  /\ visit[v].at = "white"
  /\ \/ GoodLook /\ IF IsInList(visit[v].ip, "whitelist") THEN Answer(v, "next") ELSE Look(v, "black")
     \/ FailedLook(v) /\ Look(v, "black")
  /\ UNCHANGED <<ipList, time, admin, logged, general, reports, alone>>

LookBlack(v) ==
  /\ visit[v].at = "black"
  /\ \/ GoodLook /\ IF IsInList(visit[v].ip, "blacklist") THEN Answer(v, "blocked") ELSE Look(v, "points")
     \/ FailedLook(v) /\ Look(v, "points")
  /\ UNCHANGED <<ipList, time, admin, logged, general, reports, alone>>

LookPoints(v) ==
  /\ visit[v].at = "points"
  /\ \/ GoodLook /\ Answer(v, IF GetPoints(visit[v].ip) >= Threshold THEN "points" ELSE "next")
     \/ FailedLook(v) /\ Answer(v, "invalid")
  /\ UNCHANGED <<ipList, time, admin, logged, general, reports, alone>>
-----------------------------------------------------------------------------
Least(x, y) == IF x < y THEN x ELSE y

(* The points of an address: getIpPoints and shouldBlockIp add up those of *)
(* the entries of type security.                                           *)
Scored(ip) == logged[ip]

RiskLevel(points) ==
  IF points >= Threshold THEN "HIGH" ELSE IF 10 * points >= 7 * Threshold THEN "MEDIUM" ELSE "LOW"

(* logSecurityEvent: checkIpStatus, which lists the address for a day if   *)
(* the points of its document are enough, and refuses it; or an entry of   *)
(* type general.                                                           *)
LogSecurityEvent(r, ip, points, next) ==
  IF GetPoints(ip) >= Threshold
  THEN /\ reports' = [reports EXCEPT ![r].at = "refused"]
       /\ SetLists(IF Upsertable(ip, "blacklist")
                   THEN [ipList EXCEPT ![ip] = Upserted(ip, "blacklist", time + OneDay, GetPoints(ip))]
                   ELSE ipList)
       /\ LogSecurityViolation(ip, 2 * GetPoints(ip))
       /\ UNCHANGED general
  ELSE /\ general' = [general EXCEPT ![ip] = Least(@ + points, 2 * Threshold)]
       /\ reports' = [reports EXCEPT ![r].at = next]
       /\ UNCHANGED <<ipList, stood, was, logged>>

(* simulateViolation tells the violation twice.                            *)
SimulateViolation(r) ==
  /\ reports[r].at = "ready"
  /\ \E ip \in Ips, points \in ViolationPoints : LogSecurityEvent(r, ip, 2 * points, "told")
  /\ UNCHANGED <<time, admin, visit, alone, failures>>

(* checkIpPoints, checkIp and checkIpPointsNew: count, clamp, count once   *)
(* more for the verdict, and tell that as an event of its own.             *)
CheckIp(r) ==
  /\ reports[r].at \in {"ready", "told"}
  /\ \E ip \in Ips :
       LET points == Least(Scored(ip), Threshold)
           answer == [at |-> "counted", points |-> points, block |-> Scored(ip) >= Threshold]
       IN  IF GetPoints(ip) >= Threshold
           THEN LogSecurityEvent(r, ip, points, "counted")
           ELSE /\ reports' = [reports EXCEPT ![r] = answer]
                /\ general' = [general EXCEPT ![ip] = Least(@ + points, 2 * Threshold)]
                /\ UNCHANGED <<ipList, stood, was, logged>>
  /\ UNCHANGED <<time, admin, visit, alone, failures>>

IpNext ==
  \/ \E a \in Admins : Ask(a) \/ AddToList(a) \/ RemoveFromList(a)
  \/ \E ip \in Ips : Expire(ip)
  \/ \E v \in Visitors : Arrive(v) \/ LookWhite(v) \/ LookBlack(v) \/ LookPoints(v)
  \/ \E r \in Reporters : SimulateViolation(r) \/ CheckIp(r)
  \/ PassTime

IpSpec == IpInit /\ [][IpNext]_ipVars
-----------------------------------------------------------------------------
(* The middleware's three looks amount to one: an address that was on the  *)
(* blacklist from the arrival of a request to its answer is refused, if no *)
(* look failed; and only one that was on it at some moment of that is.     *)
FilterFollowsLists ==
  \A v \in Visitors : visit[v].at = "done" =>
    /\ v \in stood => visit[v].answer = "blocked"
    /\ visit[v].answer = "blocked" => v \in was

(* An acknowledged change is the last word until another is asked about    *)
(* its address: what was added is listed, unless an expiration asked for   *)
(* the address has passed or is null, and what was removed is not.         *)
ChangesStand ==
  \A a \in alone : admin[a].at = "done" =>
    IF admin[a].op = "add"
    THEN \/ IsInList(admin[a].ip, admin[a].list)
         \/ \E b \in Admins : /\ admin[b].ip = admin[a].ip
                              /\ admin[b].exp = Null \/ admin[b].exp \in 1 .. time
    ELSE ~IsInList(admin[a].ip, admin[a].list)

(* "Agregar IP a la lista negra": an addition of which no call fails is    *)
(* acknowledged.                                                           *)
AdditionsAccepted ==
  \A a \in Admins : admin[a].at = "failed" /\ admin[a].op = "add" => failures > 0

(* "Si una IP alcanza o supera este valor, será bloqueada": no request of  *)
(* an address is let on for its points when violations of the threshold or *)
(* more were told of it.                                                   *)
ThresholdBlocks ==
  [][\A v \in Visitors :
       visit[v].at = "points" /\ visit'[v].answer = "next" =>
         general[visit[v].ip] < Threshold]_ipVars
=============================================================================
