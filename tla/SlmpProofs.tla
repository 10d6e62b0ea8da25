----------------------------- MODULE SlmpProofs -----------------------------
(***************************************************************************)
(* Proofs about the SLMP messages (Slmp), for any number of masters and    *)
(* slaves, any addresses, times, delays and database size, on a network    *)
(* that loses, delays, reorders and duplicates frames.                     *)
(*                                                                         *)
(* The inductive invariant says what each frame in net stands for: which   *)
(* master issued its serial number, which slave it was meant for and what  *)
(* that slave did.  Serial numbers are issued in increasing order, so no   *)
(* frame in net is about a request that has not been made yet.             *)
(***************************************************************************)
EXTENDS Slmp, TLAPS

AllIps == UNION {SlaveIps(t) : t \in Slaves}

(* A slave and an address that is one of its own.                          *)
Found == {e \in [slave_mac : Slaves, slave_ip : AllIps] :
              e.slave_ip \in SlaveIps(e.slave_mac)}

MasterType ==
    [slmp_request_serial : Serials,
     node_search_serial : Serials \cup {SerialNone},
     set_ip_request_serial : Serials \cup {SerialNone},
     node_search_timer : Timer({0, NodeSearchTime}),
     set_ip_request_timer : Timer({0, SetIpTime}),
     node_search_db : [count : 0 .. MaxCount, entries : Seq(Found)],
     set_ip_cfm : [serial : Serials \cup {SerialNone},
                   status : {"NONE", "SUCCESS", "ERROR", "TIMEOUT"}]]

(* A master by itself: its type, the size of the database of the search,   *)
(* and a timer that runs as long as a request is pending.                  *)
MasterInv(c) ==
    /\ c \in MasterType
    /\ Len(c.node_search_db.entries) <= MaxNodeSearchDevices
    /\ c.node_search_serial # SerialNone
           <=> c.node_search_timer.state = "RUNNING"
    /\ c.set_ip_request_serial # SerialNone
           <=> c.set_ip_request_timer.state = "RUNNING"

SlaveType ==
    [ip : AllIps,
     node_search : [master_ip : Masters \cup {NoMaster},
                    master_mac : Masters \cup {NoMaster},
                    serial : Serials,
                    slave_ip : AllIps \cup {NoMaster}],
     response_timer : Timer(Nat)]

(* A pending answer is to a master that asked, from the slave's address.   *)
SlaveInv(c, s) ==
    /\ c \in SlaveType
    /\ c.ip \in SlaveIps(s)
    /\ c.response_timer.period \in {0, NodeSearchDelay[s]}
    /\ c.node_search.master_ip # NoMaster
       => /\ c.node_search.master_mac \in Masters
          /\ c.node_search.slave_ip \in SlaveIps(s)

FrameOK(f) ==
    /\ f.kind \in {"NODE_SEARCH_REQ", "SET_IP_REQ", "NODE_SEARCH_RESP",
                   "SET_IP_RESP", "ERROR_RESP"}
    /\ f.serial \in Serials
    /\ f.kind # "ERROR_RESP" => f.master_mac \in Masters
    /\ f.kind \in {"NODE_SEARCH_REQ", "SET_IP_REQ"}
       => f.src_ip = f.master_mac
    /\ f.kind = "SET_IP_REQ"
       => /\ f.slave_mac \in Slaves
          /\ f.new_ip \in NewIps[f.slave_mac]
    /\ f.kind = "NODE_SEARCH_RESP"
       => /\ f.slave_mac \in Slaves
          /\ f.slave_ip \in SlaveIps(f.slave_mac)

Types ==
    /\ clm \in [Masters -> MasterType]
    /\ cls \in [Slaves -> SlaveType]
    /\ asked \in [Masters -> Slaves \cup {NoMaster}]
    /\ served \in [Slaves -> SUBSET (Masters \X Serials)]
    /\ refused \in [Slaves -> SUBSET (Masters \X Serials)]
    /\ DOMAIN since = Masters

(* Nodes and frames, each by itself.                                       *)
Local ==
    /\ Types
    /\ \A m \in Masters : MasterInv(clm[m])
    /\ \A s \in Slaves : SlaveInv(cls[s], s)
    /\ \A f \in net : FrameOK(f)

(* Every serial number in a frame or in a pending answer was issued by the *)
(* master the frame or answer names, and so were the numbers it waits for. *)
SerialsIssued ==
    /\ \A f \in net : f.kind # "ERROR_RESP"
           => f.serial < clm[f.master_mac].slmp_request_serial
    /\ \A s \in Slaves : cls[s].node_search.master_ip # NoMaster
           => cls[s].node_search.serial
              < clm[cls[s].node_search.master_mac].slmp_request_serial
    /\ \A m \in Masters :
           /\ clm[m].set_ip_request_serial < clm[m].slmp_request_serial
           /\ clm[m].set_ip_cfm.serial < clm[m].slmp_request_serial

(* The serial number of the latest command, pending or confirmed.          *)
Latest(m, serial) ==
    \/ clm[m].set_ip_request_serial = serial
    \/ clm[m].set_ip_cfm.status # "NONE" /\ clm[m].set_ip_cfm.serial = serial

(* Some slave has refused a command with that number.                      *)
SomeRefused(serial) ==
    \E g \in net : /\ g.kind = "SET_IP_REQ"
                   /\ g.serial = serial
                   /\ <<g.master_mac, g.serial>> \in refused[g.slave_mac]

(* The command with that number is to the slave that was asked, a response *)
(* to it means that this slave has carried it out, and an error response   *)
(* that a slave has refused a command with that number.                    *)
FrameAnswered(f) ==
    /\ f.kind = "SET_IP_REQ" /\ Latest(f.master_mac, f.serial)
       => f.slave_mac = asked[f.master_mac]
    /\ f.kind = "SET_IP_RESP" /\ Latest(f.master_mac, f.serial)
       => <<f.master_mac, f.serial>> \in served[asked[f.master_mac]]
    /\ f.kind = "ERROR_RESP" => SomeRefused(f.serial)

(* What the application of a master was told.                              *)
Told(m) ==
    /\ \/ clm[m].set_ip_request_serial # SerialNone
       \/ clm[m].set_ip_cfm.status # "NONE"
       => asked[m] \in Slaves
    /\ clm[m].set_ip_cfm.status = "SUCCESS"
       => <<m, clm[m].set_ip_cfm.serial>> \in served[asked[m]]
    /\ clm[m].set_ip_cfm.status = "ERROR"
       => SomeRefused(clm[m].set_ip_cfm.serial)

CommandsAnswered ==
    /\ \A f \in net : FrameAnswered(f)
    /\ \A m \in Masters : Told(m)

OneMaster == \A m, n \in Masters : m = n

(* While a search is pending, since holds the slaves' addresses and those  *)
(* of the answers that have been sent to it.                               *)
SearchAnswered ==
    \A m \in Masters :
        clm[m].node_search_serial # SerialNone
        => /\ \A s \in Slaves : <<s, cls[s].ip>> \in since[m]
           /\ clm[m].node_search_serial < clm[m].slmp_request_serial
           /\ \A f \in net :
                  /\ f.kind = "NODE_SEARCH_RESP"
                  /\ f.serial = clm[m].node_search_serial
                  => <<f.slave_mac, f.slave_ip>> \in since[m]

SearchInv == SearchAnswered /\ FoundSinceSearch

IInv == Local /\ SerialsIssued /\ CommandsAnswered
-----------------------------------------------------------------------------
(* The operators on a master.  Each lemma says what the operator does to   *)
(* the master's own invariant and which fields the rest of the invariant   *)
(* looks at it may change.                                                 *)

(* Stopped timers and timers that time passes for.                         *)
LEMMA TimerTypes ==
    ASSUME NEW P \in SUBSET Nat, 0 \in P
    PROVE  /\ cl_timer_stop \in Timer(P)
           /\ cl_timer_stop.state = "STOPPED"
           /\ \A p \in P : /\ cl_timer_start(p) \in Timer(P)
                           /\ cl_timer_start(p).state = "RUNNING"
           /\ \A t \in Timer(P) :
                  /\ TimerAdvance(t, 1) \in Timer(P)
                  /\ TimerAdvance(t, 1).state = t.state
                  /\ TimerAdvance(t, 1).period = t.period
<1>1. /\ cl_timer_stop \in Timer(P)
      /\ cl_timer_stop.state = "STOPPED"
  BY DEF cl_timer_stop, Timer
<1>2. \A p \in P : /\ cl_timer_start(p) \in Timer(P)
                   /\ cl_timer_start(p).state = "RUNNING"
  BY DEF cl_timer_start, Timer
<1>3. \A t \in Timer(P) :
         /\ TimerAdvance(t, 1) \in Timer(P)
         /\ TimerAdvance(t, 1).state = t.state
         /\ TimerAdvance(t, 1).period = t.period
  BY DEF TimerAdvance, Timer
<1> QED BY <1>1, <1>2, <1>3

(* A master that has just been initialised.                                *)
LEMMA MasterInit ==
    /\ MasterInv(clm_slmp_init)
    /\ clm_slmp_init.slmp_request_serial = 0
    /\ clm_slmp_init.node_search_serial = SerialNone
    /\ clm_slmp_init.set_ip_request_serial = SerialNone
    /\ clm_slmp_init.set_ip_cfm = [serial |-> SerialNone, status |-> "NONE"]
    /\ clm_slmp_init.node_search_db.entries = << >>
<1>1. \A P \in SUBSET Nat : 0 \in P => cl_timer_stop \in Timer(P)
  BY TimerTypes
<1>2. /\ cl_timer_stop \in Timer({0, NodeSearchTime})
      /\ cl_timer_stop \in Timer({0, SetIpTime})
      /\ cl_timer_stop.state = "STOPPED"
  BY <1>1, ClmSlmpAssumption DEF cl_timer_stop
<1>3. /\ 0 \in Serials
      /\ [count |-> 0, entries |-> << >>]
             \in [count : 0 .. MaxCount, entries : Seq(Found)]
      /\ Len(<< >>) = 0
  BY ClmSlmpAssumption DEF Serials
<1> QED
  BY <1>2, <1>3, ClmSlmpAssumption
  DEF MasterInv, MasterType, clm_slmp_init, clm_slmp_node_search_clear_db

(* A search that begins: the database is empty, a new number is issued.    *)
LEMMA SearchBegins ==
    ASSUME NEW c, MasterInv(c), NEW sent \in BOOLEAN,
           c.node_search_serial = SerialNone,
           c.slmp_request_serial < MaxRequests
    PROVE  LET r == clm_slmp_perform_node_search(c, sent)
           IN  /\ MasterInv(r)
               /\ r.slmp_request_serial = c.slmp_request_serial + 1
               /\ r.node_search_serial =
                     IF sent THEN c.slmp_request_serial ELSE SerialNone
               /\ r.set_ip_request_serial = c.set_ip_request_serial
               /\ r.set_ip_cfm = c.set_ip_cfm
               /\ r.node_search_db.entries = << >>
<1> DEFINE r == clm_slmp_perform_node_search(c, sent)
           t == IF sent THEN cl_timer_start(NodeSearchTime)
                ELSE c.node_search_timer
           n == IF sent THEN c.slmp_request_serial ELSE SerialNone
<1>a. /\ cl_timer_start(NodeSearchTime) \in Timer({0, NodeSearchTime})
      /\ cl_timer_start(NodeSearchTime).state = "RUNNING"
  BY ClmSlmpAssumption DEF cl_timer_start, Timer
<1>1. /\ t \in Timer({0, NodeSearchTime})
      /\ n # SerialNone <=> t.state = "RUNNING"
      /\ n \in Serials \cup {SerialNone}
  BY <1>a, ClmSlmpAssumption
  DEF MasterInv, MasterType, Serials, SerialNone
<1>2. /\ NextSerial(c) = c.slmp_request_serial + 1
      /\ NextSerial(c) \in Serials
  BY SlmpAssumption, ClmSlmpAssumption
  DEF MasterInv, MasterType, Serials, NextSerial
<1>3. /\ clm_slmp_node_search_clear_db
             \in [count : 0 .. MaxCount, entries : Seq(Found)]
      /\ clm_slmp_node_search_clear_db.entries = << >>
      /\ Len(<< >>) <= MaxNodeSearchDevices
  BY ClmSlmpAssumption DEF clm_slmp_node_search_clear_db
<1>4. r = [c EXCEPT !.node_search_serial = n,
                    !.node_search_db = clm_slmp_node_search_clear_db,
                    !.slmp_request_serial = NextSerial(c),
                    !.node_search_timer = t]
  BY DEF clm_slmp_perform_node_search
<1> HIDE DEF r, t, n
<1>5. /\ r \in MasterType
      /\ r.node_search_db = clm_slmp_node_search_clear_db
      /\ r.slmp_request_serial = c.slmp_request_serial + 1
      /\ r.node_search_serial = n
      /\ r.node_search_timer = t
      /\ r.set_ip_request_serial = c.set_ip_request_serial
      /\ r.set_ip_request_timer = c.set_ip_request_timer
      /\ r.set_ip_cfm = c.set_ip_cfm
  BY <1>1, <1>2, <1>3, <1>4 DEF MasterInv, MasterType
<1>6. MasterInv(r)
  BY <1>1, <1>3, <1>5 DEF MasterInv
<1> QED BY <1>3, <1>5, <1>6 DEF n, r

(* A command that begins: what was told of the one before is forgotten.    *)
LEMMA CommandBegins ==
    ASSUME NEW c, MasterInv(c), NEW sent \in BOOLEAN, NEW new_ip,
           c.set_ip_request_serial = SerialNone,
           new_ip # InvalidIp,
           c.slmp_request_serial < MaxRequests
    PROVE  LET r == clm_slmp_perform_set_ipaddr_request(
                        [c EXCEPT !.set_ip_cfm = clm_slmp_init.set_ip_cfm],
                        new_ip, sent)
           IN  /\ MasterInv(r)
               /\ r.slmp_request_serial = c.slmp_request_serial + 1
               /\ r.set_ip_request_serial =
                     IF sent THEN c.slmp_request_serial ELSE SerialNone
               /\ r.node_search_serial = c.node_search_serial
               /\ r.set_ip_cfm = [serial |-> SerialNone, status |-> "NONE"]
               /\ r.node_search_db = c.node_search_db
<1> DEFINE b == [c EXCEPT !.set_ip_cfm = clm_slmp_init.set_ip_cfm]
           r == clm_slmp_perform_set_ipaddr_request(b, new_ip, sent)
           t == IF sent THEN cl_timer_start(SetIpTime)
                ELSE c.set_ip_request_timer
           n == IF sent THEN c.slmp_request_serial ELSE SerialNone
<1>a. /\ cl_timer_start(SetIpTime) \in Timer({0, SetIpTime})
      /\ cl_timer_start(SetIpTime).state = "RUNNING"
  BY ClmSlmpAssumption DEF cl_timer_start, Timer
<1>1. /\ t \in Timer({0, SetIpTime})
      /\ n # SerialNone <=> t.state = "RUNNING"
      /\ n \in Serials \cup {SerialNone}
  BY <1>a, ClmSlmpAssumption
  DEF MasterInv, MasterType, Serials, SerialNone
<1>2. /\ b \in MasterType
      /\ b = [c EXCEPT !.set_ip_cfm =
                           [serial |-> SerialNone, status |-> "NONE"]]
      /\ b.set_ip_cfm = [serial |-> SerialNone, status |-> "NONE"]
      /\ b.slmp_request_serial = c.slmp_request_serial
      /\ b.set_ip_request_serial = SerialNone
      /\ b.set_ip_request_timer = c.set_ip_request_timer
      /\ b.node_search_serial = c.node_search_serial
      /\ b.node_search_timer = c.node_search_timer
      /\ b.node_search_db = c.node_search_db
  BY MasterInit DEF MasterInv, MasterType
<1> HIDE DEF b
<1>3. /\ NextSerial(b) = c.slmp_request_serial + 1
      /\ NextSerial(b) \in Serials
  BY <1>2, SlmpAssumption, ClmSlmpAssumption
  DEF MasterInv, MasterType, Serials, NextSerial
<1>4. r = [b EXCEPT !.set_ip_request_serial = n,
                    !.slmp_request_serial = NextSerial(b),
                    !.set_ip_request_timer = t]
  BY <1>2 DEF clm_slmp_perform_set_ipaddr_request
<1> HIDE DEF r, t, n
<1>5. /\ r \in MasterType
      /\ r.slmp_request_serial = c.slmp_request_serial + 1
      /\ r.set_ip_request_serial = n
      /\ r.set_ip_request_timer = t
      /\ r.node_search_serial = c.node_search_serial
      /\ r.node_search_timer = c.node_search_timer
      /\ r.node_search_db = c.node_search_db
      /\ r.set_ip_cfm = [serial |-> SerialNone, status |-> "NONE"]
  <2>1. b \in MasterType
    BY <1>2
  <2>2. /\ r \in MasterType
        /\ r.slmp_request_serial = NextSerial(b)
        /\ r.set_ip_request_serial = n
        /\ r.set_ip_request_timer = t
        /\ r.node_search_serial = b.node_search_serial
        /\ r.node_search_timer = b.node_search_timer
        /\ r.node_search_db = b.node_search_db
        /\ r.set_ip_cfm = b.set_ip_cfm
    BY <2>1, <1>1, <1>3, <1>4 DEF MasterType
  <2> QED BY <2>2, <1>2, <1>3
<1>6. MasterInv(r)
  BY <1>1, <1>5 DEF MasterInv
<1> QED BY <1>5, <1>6 DEF n, r, b

(* The end of a pending command.                                           *)
LEMMA CommandEnds ==
    ASSUME NEW c, MasterInv(c),
           NEW status \in {"SUCCESS", "ERROR", "TIMEOUT"}
    PROVE  LET r == clm_slmp_set_ip_notify_cfm(c, status)
           IN  /\ MasterInv(r)
               /\ r.slmp_request_serial = c.slmp_request_serial
               /\ r.set_ip_request_serial = SerialNone
               /\ r.set_ip_cfm = [serial |-> c.set_ip_request_serial,
                                  status |-> status]
               /\ r.node_search_serial = c.node_search_serial
               /\ r.node_search_db = c.node_search_db
<1> DEFINE r == clm_slmp_set_ip_notify_cfm(c, status)
<1>1. /\ cl_timer_stop \in Timer({0, SetIpTime})
      /\ cl_timer_stop.state = "STOPPED"
  BY TimerTypes, ClmSlmpAssumption
<1>2. /\ r \in MasterType
      /\ r.slmp_request_serial = c.slmp_request_serial
      /\ r.set_ip_request_serial = SerialNone
      /\ r.set_ip_request_timer = cl_timer_stop
      /\ r.set_ip_cfm = [serial |-> c.set_ip_request_serial,
                         status |-> status]
      /\ r.node_search_serial = c.node_search_serial
      /\ r.node_search_timer = c.node_search_timer
      /\ r.node_search_db = c.node_search_db
  BY <1>1 DEF MasterInv, MasterType, clm_slmp_set_ip_notify_cfm
<1> HIDE DEF r
<1>3. MasterInv(r)
  BY <1>1, <1>2 DEF MasterInv
<1> QED BY <1>2, <1>3 DEF r

(* Time passes, and the requests that have taken too long are ended.       *)
LEMMA TimeoutsChecked ==
    ASSUME NEW c, MasterInv(c)
    PROVE  LET r == clm_slmp_check_timeouts(AdvanceSlmp(c, 1))
           IN  /\ MasterInv(r)
               /\ r.slmp_request_serial = c.slmp_request_serial
               /\ r.node_search_serial \in {c.node_search_serial, SerialNone}
               /\ r.node_search_db = c.node_search_db
               /\ \/ /\ r.set_ip_request_serial = c.set_ip_request_serial
                     /\ r.set_ip_cfm = c.set_ip_cfm
                  \/ /\ c.set_ip_request_serial # SerialNone
                     /\ r.set_ip_request_serial = SerialNone
                     /\ r.set_ip_cfm = [serial |-> c.set_ip_request_serial,
                                        status |-> "TIMEOUT"]
<1> DEFINE a == AdvanceSlmp(c, 1)
           b == CheckNodeSearchTimer(a)
           r == CheckSetIpTimer(b)
<1>1. /\ TimerAdvance(c.node_search_timer, 1) \in Timer({0, NodeSearchTime})
      /\ TimerAdvance(c.node_search_timer, 1).state = c.node_search_timer.state
      /\ TimerAdvance(c.set_ip_request_timer, 1) \in Timer({0, SetIpTime})
      /\ TimerAdvance(c.set_ip_request_timer, 1).state
            = c.set_ip_request_timer.state
      /\ cl_timer_stop \in Timer({0, NodeSearchTime})
      /\ cl_timer_stop.state = "STOPPED"
  <2>1. {0, NodeSearchTime} \in SUBSET Nat /\ {0, SetIpTime} \in SUBSET Nat
    BY ClmSlmpAssumption
  <2>2. /\ c.node_search_timer \in Timer({0, NodeSearchTime})
        /\ c.set_ip_request_timer \in Timer({0, SetIpTime})
    BY DEF MasterInv, MasterType
  <2> QED BY <2>1, <2>2, TimerTypes
<1>2. /\ MasterInv(a)
      /\ a = [c EXCEPT !.node_search_timer = a.node_search_timer,
                       !.set_ip_request_timer = a.set_ip_request_timer]
  BY <1>1 DEF MasterInv, MasterType, AdvanceSlmp
<1> HIDE DEF a
<1>3. /\ a.slmp_request_serial = c.slmp_request_serial
      /\ a.node_search_serial = c.node_search_serial
      /\ a.set_ip_request_serial = c.set_ip_request_serial
      /\ a.node_search_db = c.node_search_db
      /\ a.set_ip_cfm = c.set_ip_cfm
  BY <1>2 DEF MasterInv, MasterType
<1>4. /\ MasterInv(b)
      /\ b.slmp_request_serial = a.slmp_request_serial
      /\ b.node_search_serial \in {a.node_search_serial, SerialNone}
      /\ b.set_ip_request_serial = a.set_ip_request_serial
      /\ b.node_search_db = a.node_search_db
      /\ b.set_ip_cfm = a.set_ip_cfm
  BY <1>1, <1>2 DEF CheckNodeSearchTimer, MasterInv, MasterType
<1> HIDE DEF b
<1>5. CASE cl_timer_is_expired(b.set_ip_request_timer)
  <2>1. b.set_ip_request_serial # SerialNone
    BY <1>4, <1>5 DEF cl_timer_is_expired, MasterInv
  <2>2. r = clm_slmp_set_ip_notify_cfm(b, "TIMEOUT")
    BY <1>5 DEF CheckSetIpTimer
  <2> HIDE DEF r
  <2>3. /\ MasterInv(r)
        /\ r.slmp_request_serial = b.slmp_request_serial
        /\ r.set_ip_request_serial = SerialNone
        /\ r.set_ip_cfm = [serial |-> b.set_ip_request_serial,
                           status |-> "TIMEOUT"]
        /\ r.node_search_serial = b.node_search_serial
        /\ r.node_search_db = b.node_search_db
    BY <1>4, <2>2, CommandEnds
  <2> QED
    BY <1>3, <1>4, <2>1, <2>3 DEF clm_slmp_check_timeouts, a, b, r
<1>6. CASE ~cl_timer_is_expired(b.set_ip_request_timer)
  BY <1>3, <1>4, <1>6 DEF CheckSetIpTimer, clm_slmp_check_timeouts, a, b
<1> QED BY <1>5, <1>6

(* An answer to a search that is stored, or only counted.                  *)
LEMMA AnswerStored ==
    ASSUME NEW c, MasterInv(c), NEW f, FrameOK(f),
           f.kind = "NODE_SEARCH_RESP"
    PROVE  LET r == [c EXCEPT !.node_search_db =
                         clm_slmp_node_search_add_db(@, f)]
               e == [slave_mac |-> f.slave_mac, slave_ip |-> f.slave_ip]
           IN  /\ MasterInv(r)
               /\ r.slmp_request_serial = c.slmp_request_serial
               /\ r.node_search_serial = c.node_search_serial
               /\ r.set_ip_request_serial = c.set_ip_request_serial
               /\ r.set_ip_cfm = c.set_ip_cfm
               /\ r.node_search_db.entries
                     \in {c.node_search_db.entries,
                          Append(c.node_search_db.entries, e)}
<1> DEFINE db == clm_slmp_node_search_add_db(c.node_search_db, f)
           r == [c EXCEPT !.node_search_db = db]
           e == [slave_mac |-> f.slave_mac, slave_ip |-> f.slave_ip]
           old == c.node_search_db.entries
<1>1. /\ old \in Seq(Found)
      /\ Len(old) <= MaxNodeSearchDevices
      /\ c.node_search_db.count \in 0 .. MaxCount
  BY DEF MasterInv, MasterType
<1>2. e \in Found
  BY DEF FrameOK, Found, AllIps
<1> HIDE DEF e, old
<1>3. /\ db.entries = IF Len(old) = MaxNodeSearchDevices THEN old
                      ELSE Append(old, e)
      /\ db.count \in 0 .. MaxCount
      /\ db = [count |-> db.count, entries |-> db.entries]
  BY <1>1, ClmSlmpAssumption DEF clm_slmp_node_search_add_db, old, e
<1> HIDE DEF db
<1>4. /\ db.entries \in {old, Append(old, e)}
      /\ db.entries \in Seq(Found)
      /\ Len(db.entries) <= MaxNodeSearchDevices
  BY <1>1, <1>2, <1>3, ClmSlmpAssumption
<1>5. db \in [count : 0 .. MaxCount, entries : Seq(Found)]
  BY <1>3, <1>4
<1>6. /\ r \in MasterType
      /\ r.node_search_db = db
      /\ r.slmp_request_serial = c.slmp_request_serial
      /\ r.node_search_serial = c.node_search_serial
      /\ r.node_search_timer = c.node_search_timer
      /\ r.set_ip_request_serial = c.set_ip_request_serial
      /\ r.set_ip_request_timer = c.set_ip_request_timer
      /\ r.set_ip_cfm = c.set_ip_cfm
  BY <1>5 DEF MasterInv, MasterType
<1> HIDE DEF r
<1>7. MasterInv(r)
  BY <1>4, <1>6 DEF MasterInv
<1> QED BY <1>4, <1>6, <1>7 DEF r, db, old, e

(***************************************************************************)
(* What a frame f does to a master c: either nothing, or a frame with the  *)
(* number of the pending search is stored, or a frame with the number of   *)
(* the pending command, of the right kind and for this master, ends it.    *)
(***************************************************************************)
Handled(c, f, mac, r) ==
    /\ MasterInv(r)
    /\ r.slmp_request_serial = c.slmp_request_serial
    /\ r.node_search_serial = c.node_search_serial
    /\ \/ r.node_search_db = c.node_search_db
       \/ /\ f.kind = "NODE_SEARCH_RESP"
          /\ f.serial = c.node_search_serial
          /\ r.node_search_db.entries
                \in {c.node_search_db.entries,
                     Append(c.node_search_db.entries,
                            [slave_mac |-> f.slave_mac,
                             slave_ip |-> f.slave_ip])}
    /\ \/ /\ r.set_ip_request_serial = c.set_ip_request_serial
          /\ r.set_ip_cfm = c.set_ip_cfm
       \/ /\ f.serial = c.set_ip_request_serial
          /\ r.set_ip_request_serial = SerialNone
          /\ r.set_ip_cfm.serial = f.serial
          /\ \/ /\ r.set_ip_cfm.status = "SUCCESS"
                /\ f.kind = "SET_IP_RESP"
                /\ f.master_mac = mac
             \/ /\ r.set_ip_cfm.status = "ERROR"
                /\ f.kind = "ERROR_RESP"

(* A master that hears a frame.                                            *)
LEMMA FrameHandled ==
    ASSUME NEW c, NEW f, NEW mac, MasterInv(c), FrameOK(f)
    PROVE  Handled(c, f, mac, clm_slmp_handle_input_frame(c, f, mac))
<1> DEFINE r == clm_slmp_handle_input_frame(c, f, mac)
<1>1. CASE r = c
  BY <1>1 DEF Handled
<1>2. CASE /\ f.serial = c.node_search_serial
           /\ f.kind = "NODE_SEARCH_RESP"
           /\ r = [c EXCEPT !.node_search_db =
                       clm_slmp_node_search_add_db(@, f)]
  <2> HIDE DEF r
  <2> QED BY <1>2, AnswerStored DEF r, Handled
<1>3. CASE /\ f.serial = c.set_ip_request_serial
           /\ f.kind = "SET_IP_RESP"
           /\ f.master_mac = mac
           /\ r = clm_slmp_set_ip_notify_cfm(c, "SUCCESS")
  <2> HIDE DEF r
  <2>1. /\ MasterInv(r)
        /\ r.slmp_request_serial = c.slmp_request_serial
        /\ r.set_ip_request_serial = SerialNone
        /\ r.set_ip_cfm = [serial |-> c.set_ip_request_serial,
                           status |-> "SUCCESS"]
        /\ r.node_search_serial = c.node_search_serial
        /\ r.node_search_db = c.node_search_db
    BY <1>3, CommandEnds
  <2> QED BY <1>3, <2>1 DEF r, Handled
<1>4. CASE /\ f.serial = c.set_ip_request_serial
           /\ f.kind = "ERROR_RESP"
           /\ r = clm_slmp_set_ip_notify_cfm(c, "ERROR")
  <2> HIDE DEF r
  <2>1. /\ MasterInv(r)
        /\ r.slmp_request_serial = c.slmp_request_serial
        /\ r.set_ip_request_serial = SerialNone
        /\ r.set_ip_cfm = [serial |-> c.set_ip_request_serial,
                           status |-> "ERROR"]
        /\ r.node_search_serial = c.node_search_serial
        /\ r.node_search_db = c.node_search_db
    BY <1>4, CommandEnds
  <2> QED BY <1>4, <2>1 DEF r, Handled
<1> QED
  BY <1>1, <1>2, <1>3, <1>4
  DEF clm_slmp_handle_input_frame, clm_slmp_handle_node_search_response,
      clm_slmp_handle_set_ipaddr_response, clm_slmp_handle_set_ip_error,
      cl_slmp_parse_node_search_response, cl_slmp_parse_set_ip_response,
      cl_slmp_parse_error_response

-----------------------------------------------------------------------------
(* The operators on a slave.                                               *)

(* A slave that has just been initialised.                                 *)
LEMMA SlaveInit ==
    ASSUME NEW s \in Slaves
    PROVE  LET c == cls_slmp_init(FirstIp[s])
           IN  SlaveInv(c, s) /\ c.node_search.master_ip = NoMaster
<1>1. cl_timer_stop \in Timer(Nat) /\ cl_timer_stop.period = 0
  BY DEF cl_timer_stop, Timer
<1>2. 0 \in Serials
  BY ClmSlmpAssumption DEF Serials
<1>3. /\ FirstIp[s] \in SlaveIps(s)
      /\ FirstIp[s] \in AllIps
  BY DEF SlaveIps, AllIps
<1> DEFINE c == cls_slmp_init(FirstIp[s])
<1>4. c = [ip |-> FirstIp[s], node_search |-> NoNodeSearch,
           response_timer |-> cl_timer_stop]
  BY DEF cls_slmp_init
<1>5. /\ NoNodeSearch \in [master_ip : Masters \cup {NoMaster},
                           master_mac : Masters \cup {NoMaster},
                           serial : Serials,
                           slave_ip : AllIps \cup {NoMaster}]
      /\ NoNodeSearch.master_ip = NoMaster
  BY <1>2 DEF NoNodeSearch
<1> HIDE DEF c
<1>6. c \in SlaveType
  BY <1>1, <1>3, <1>4, <1>5 DEF SlaveType
<1> QED BY <1>1, <1>3, <1>4, <1>5, <1>6 DEF SlaveInv, c

(* Time passes for a slave.  An answer it sends is to the search it holds, *)
(* and tells the address it has.                                           *)
LEMMA SlaveTicks ==
    ASSUME NEW s \in Slaves, NEW c, SlaveInv(c, s)
    PROVE  LET now == AdvanceSlave(c, 1)
               r == MonitorResponseTimer(now)
           IN  /\ SlaveInv(r, s)
               /\ r.ip = c.ip
               /\ r.node_search = c.node_search
               /\ \A f \in AnswersSent(now, s) :
                      /\ FrameOK(f)
                      /\ f.kind = "NODE_SEARCH_RESP"
                      /\ c.node_search.master_ip # NoMaster
                      /\ f.master_mac = c.node_search.master_mac
                      /\ f.serial = c.node_search.serial
                      /\ f.slave_mac = s
                      /\ f.slave_ip = c.ip
<1> DEFINE now == AdvanceSlave(c, 1)
           r == MonitorResponseTimer(now)
           t == TimerAdvance(c.response_timer, 1)
<1>1. /\ t \in Timer(Nat)
      /\ t.period = c.response_timer.period
      /\ cl_timer_stop \in Timer(Nat)
      /\ cl_timer_stop.period = 0
  <2>1. c.response_timer \in Timer(Nat)
    BY DEF SlaveInv, SlaveType
  <2> QED BY <2>1, TimerTypes DEF cl_timer_stop
<1>2. now = [c EXCEPT !.response_timer = t]
  BY DEF AdvanceSlave
<1> HIDE DEF t, now
<1>3. /\ now \in SlaveType
      /\ now.ip = c.ip
      /\ now.node_search = c.node_search
      /\ now.response_timer = t
  BY <1>1, <1>2 DEF SlaveInv, SlaveType
<1>4. /\ r \in SlaveType
      /\ r.ip = now.ip
      /\ r.node_search = now.node_search
      /\ r.response_timer \in {now.response_timer, cl_timer_stop}
  BY <1>1, <1>3 DEF MonitorResponseTimer, SlaveType
<1>5. SlaveInv(r, s)
  <2> HIDE DEF r
  <2> QED BY <1>1, <1>3, <1>4 DEF SlaveInv
<1>6. ASSUME NEW f \in AnswersSent(now, s)
      PROVE  /\ FrameOK(f)
             /\ f.kind = "NODE_SEARCH_RESP"
             /\ c.node_search.master_ip # NoMaster
             /\ f.master_mac = c.node_search.master_mac
             /\ f.serial = c.node_search.serial
             /\ f.slave_mac = s
             /\ f.slave_ip = c.ip
  <2>1. /\ now.node_search.master_ip # NoMaster
        /\ now.node_search.slave_ip = now.ip
        /\ f = cl_slmp_prepare_node_search_response_frame(
                   now.node_search.master_mac, s, now.node_search.slave_ip,
                   now.node_search.serial)
    BY <1>6 DEF AnswersSent, cls_slmp_send_node_search_response, clal_udp_open
  <2>2. /\ f.kind = "NODE_SEARCH_RESP"
        /\ c.node_search.master_ip # NoMaster
        /\ f.master_mac = c.node_search.master_mac
        /\ f.serial = c.node_search.serial
        /\ f.slave_mac = s
        /\ f.slave_ip = c.ip
    BY <1>3, <2>1 DEF cl_slmp_prepare_node_search_response_frame
  <2>3. /\ f.master_mac \in Masters
        /\ f.serial \in Serials
        /\ f.slave_ip \in SlaveIps(s)
    BY <2>2 DEF SlaveInv, SlaveType
  <2> QED BY <2>2, <2>3 DEF FrameOK
<1> QED BY <1>3, <1>4, <1>5, <1>6 DEF now

(* A request that a slave hears: the search it holds is the one it held,   *)
(* or that of the request.                                                 *)
LEMMA RequestHandled ==
    ASSUME NEW s \in Slaves, NEW c, SlaveInv(c, s), NEW f, FrameOK(f),
           NEW done \in BOOLEAN
    PROVE  LET r == cls_slmp_handle_input_frame(c, f, s, s \in Allowed, done)
           IN  /\ SlaveInv(r, s)
               /\ \/ r.node_search = c.node_search
                  \/ /\ f.kind = "NODE_SEARCH_REQ"
                     /\ r.node_search.master_mac = f.master_mac
                     /\ r.node_search.serial = f.serial
<1> DEFINE r == cls_slmp_handle_input_frame(c, f, s, s \in Allowed, done)
<1>1. CASE r = c
  BY <1>1
<1>2. CASE /\ f.kind = "NODE_SEARCH_REQ"
           /\ r = cls_slmp_schedule_node_search_response(c, f, s)
  <2>1. /\ cl_timer_start(NodeSearchDelay[s]) \in Timer(Nat)
        /\ cl_timer_start(NodeSearchDelay[s]).period = NodeSearchDelay[s]
    BY SlmpAssumption DEF cl_timer_start, Timer
  <2>2. /\ f.src_ip \in Masters
        /\ f.master_mac \in Masters
        /\ f.serial \in Serials
    BY <1>2 DEF FrameOK
  <2>3. /\ c \in SlaveType
        /\ c.ip \in SlaveIps(s)
        /\ c.ip \in AllIps
    BY DEF SlaveInv, SlaveType
  <2> DEFINE n == [master_ip |-> f.src_ip, master_mac |-> f.master_mac,
                   serial |-> f.serial, slave_ip |-> c.ip]
  <2>4. /\ n \in [master_ip : Masters \cup {NoMaster},
                  master_mac : Masters \cup {NoMaster},
                  serial : Serials,
                  slave_ip : AllIps \cup {NoMaster}]
        /\ n.master_mac = f.master_mac
        /\ n.serial = f.serial
        /\ n.slave_ip = c.ip
    BY <2>2, <2>3
  <2>5. r = [c EXCEPT !.node_search = n,
                 !.response_timer = cl_timer_start(NodeSearchDelay[s])]
    BY <1>2 DEF cls_slmp_schedule_node_search_response
  <2> HIDE DEF n, r
  <2>6. /\ r \in SlaveType
        /\ r.ip = c.ip
        /\ r.node_search = n
        /\ r.response_timer = cl_timer_start(NodeSearchDelay[s])
    BY <2>1, <2>3, <2>4, <2>5 DEF SlaveType
  <2>7. SlaveInv(r, s)
    BY <2>1, <2>2, <2>3, <2>4, <2>6 DEF SlaveInv
  <2> QED BY <1>2, <2>4, <2>6, <2>7 DEF r
<1>3. CASE /\ f.kind = "SET_IP_REQ"
           /\ f.slave_mac = s
           /\ r = [c EXCEPT !.ip = f.new_ip]
  <2>1. /\ f.new_ip \in SlaveIps(s)
        /\ f.new_ip \in AllIps
    BY <1>3 DEF FrameOK, SlaveIps, AllIps
  <2> HIDE DEF r
  <2>2. /\ r \in SlaveType
        /\ r.ip = f.new_ip
        /\ r.node_search = c.node_search
        /\ r.response_timer = c.response_timer
    BY <1>3, <2>1 DEF SlaveInv, SlaveType
  <2>3. SlaveInv(r, s)
    BY <2>1, <2>2 DEF SlaveInv
  <2> QED BY <2>2, <2>3 DEF r
<1> QED
  BY <1>1, <1>2, <1>3
  DEF cls_slmp_handle_input_frame, cls_slmp_handle_node_search_request,
      cls_slmp_handle_ipaddress_set_request, SetIpIsForMe

(* What a slave answers to a command.                                      *)
LEMMA CommandAnswer ==
    ASSUME NEW s \in Slaves, NEW f, FrameOK(f), f.kind = "SET_IP_REQ",
           NEW done \in BOOLEAN,
           NEW g \in SetIpResponse(f, s, s \in Allowed, done)
    PROVE  /\ FrameOK(g)
           /\ f.slave_mac = s
           /\ g.serial = f.serial
           /\ \/ /\ g.kind = "SET_IP_RESP"
                 /\ g.master_mac = f.master_mac
                 /\ s \in Allowed /\ done
              \/ /\ g.kind = "ERROR_RESP"
                 /\ ~(s \in Allowed /\ done)
<1>1. SetIpIsForMe(f, s)
  BY DEF SetIpResponse
<1>2. CASE s \in Allowed /\ done
  <2>1. g = cl_slmp_prepare_set_ip_response_frame(f.master_mac, f.serial)
    BY <1>1, <1>2 DEF SetIpResponse
  <2> QED
    BY <1>1, <1>2, <2>1
    DEF SetIpIsForMe, cl_slmp_prepare_set_ip_response_frame, FrameOK
<1>3. CASE ~(s \in Allowed /\ done)
  <2>1. g = cl_slmp_prepare_error_response_frame("ERROR", f.serial)
    BY <1>1, <1>3 DEF SetIpResponse
  <2> QED
    BY <1>1, <1>3, <2>1
    DEF SetIpIsForMe, cl_slmp_prepare_error_response_frame, FrameOK
<1> QED BY <1>2, <1>3

-----------------------------------------------------------------------------
(* The invariant holds at first, and every action preserves it.            *)

LEMMA InitIInv == Init => IInv /\ SearchInv
<1> SUFFICES ASSUME Init PROVE IInv /\ SearchInv
  OBVIOUS
<1>1. \A m \in Masters : clm[m] = clm_slmp_init
  BY DEF Init
<1>2. \A s \in Slaves : cls[s] = cls_slmp_init(FirstIp[s])
  BY DEF Init
<1>3. /\ \A m \in Masters : MasterInv(clm[m])
      /\ \A s \in Slaves : /\ SlaveInv(cls[s], s)
                           /\ cls[s].node_search.master_ip = NoMaster
  BY <1>1, <1>2, MasterInit, SlaveInit
<1>4. Types
  <2>1. clm_slmp_init \in MasterType
    BY MasterInit DEF MasterInv
  <2>2. \A s \in Slaves : cls_slmp_init(FirstIp[s]) \in SlaveType
    BY SlaveInit DEF SlaveInv
  <2> QED BY <2>1, <2>2 DEF Types, Init
<1>5. Local
  BY <1>3, <1>4 DEF Local, Init
<1>6. SerialsIssued
  BY <1>1, <1>3, MasterInit DEF SerialsIssued, Init, SerialNone
<1>7. CommandsAnswered
  BY <1>1, MasterInit DEF CommandsAnswered, Told, Init
<1>8. SearchInv
  BY <1>1, MasterInit DEF SearchInv, SearchAnswered, FoundSinceSearch, Init
<1> QED BY <1>5, <1>6, <1>7, <1>8 DEF IInv

(* The numbers a master holds.                                             *)
LEMMA MasterNumbers ==
    ASSUME NEW c, MasterInv(c)
    PROVE  /\ c.slmp_request_serial \in Nat
           /\ c.node_search_serial \in Int
           /\ c.set_ip_request_serial \in Int
           /\ c.set_ip_cfm.serial \in Int
  BY ClmSlmpAssumption DEF MasterInv, MasterType, Serials, SerialNone

(* Numbers stay issued as masters issue more of them.                      *)
LEMMA SerialsStayIssued ==
    ASSUME IInv,
           \A n \in Masters : clm[n].slmp_request_serial
                                  <= clm'[n].slmp_request_serial,
           \A n \in Masters : MasterInv(clm'[n])
    PROVE  /\ \A f \in net : f.kind # "ERROR_RESP"
                  => f.serial < clm'[f.master_mac].slmp_request_serial
           /\ \A s \in Slaves : cls[s].node_search.master_ip # NoMaster
                  => cls[s].node_search.serial
                     < clm'[cls[s].node_search.master_mac].slmp_request_serial
<1>1. \A n \in Masters : /\ clm[n].slmp_request_serial \in Int
                         /\ clm'[n].slmp_request_serial \in Int
  BY MasterNumbers DEF IInv, Local
<1>2. \A f \in net : f.kind # "ERROR_RESP"
         => f.master_mac \in Masters /\ f.serial \in Int
  BY ClmSlmpAssumption DEF IInv, Local, FrameOK, Serials
<1>3. \A s \in Slaves : cls[s].node_search.master_ip # NoMaster
         => /\ cls[s].node_search.master_mac \in Masters
            /\ cls[s].node_search.serial \in Int
  BY ClmSlmpAssumption DEF IInv, Local, SlaveInv, SlaveType, Serials
<1> QED BY <1>1, <1>2, <1>3 DEF IInv, SerialsIssued

(* A refused command stays refused.                                        *)
LEMMA RefusedStays ==
    ASSUME IInv,
           net \subseteq net',
           \A s \in Slaves : refused[s] \subseteq refused'[s],
           NEW x
    PROVE  SomeRefused(x) => SomeRefused(x)'
  BY DEF IInv, Local, FrameOK, SomeRefused

(* What was answered stays so: a step never takes back what a slave did,   *)
(* and a command that has ended does not become the latest again.          *)
LEMMA StaysAnswered ==
    ASSUME IInv,
           net \subseteq net',
           \A s \in Slaves : /\ served[s] \subseteq served'[s]
                             /\ refused[s] \subseteq refused'[s],
           NEW f \in net, f.kind # "ERROR_RESP" =>
               /\ asked'[f.master_mac] = asked[f.master_mac]
               /\ Latest(f.master_mac, f.serial)'
                  => Latest(f.master_mac, f.serial)
               /\ Latest(f.master_mac, f.serial) => asked[f.master_mac] \in Slaves
    PROVE  FrameAnswered(f)'
<1>1. \A x : SomeRefused(x) => SomeRefused(x)'
  BY RefusedStays
<1> QED BY <1>1 DEF IInv, CommandsAnswered, FrameAnswered

(* The slave of the latest command.                                        *)
LEMMA LatestAsked ==
    ASSUME IInv, NEW n \in Masters, NEW x \in Serials, Latest(n, x)
    PROVE  asked[n] \in Slaves
<1>1. x # SerialNone
  BY DEF Serials, SerialNone
<1>2. \/ clm[n].set_ip_request_serial # SerialNone
      \/ clm[n].set_ip_cfm.status # "NONE"
  BY <1>1 DEF Latest
<1> QED BY <1>2 DEF IInv, CommandsAnswered, Told

(* A search is begun.                                                      *)
LEMMA PerformNodeSearchStep ==
    ASSUME IInv, NEW m \in Masters, NEW sent \in BOOLEAN,
           PerformNodeSearch(m, sent)
    PROVE  IInv'
<1> DEFINE r == clm_slmp_perform_node_search(clm[m], sent)
           q == cl_slmp_prepare_node_search_request_frame(
                    m, m, clm[m].slmp_request_serial)
<1> USE DEF IInv, Local
<1>1. /\ MasterInv(r)
      /\ r.slmp_request_serial = clm[m].slmp_request_serial + 1
      /\ r.set_ip_request_serial = clm[m].set_ip_request_serial
      /\ r.set_ip_cfm = clm[m].set_ip_cfm
  <2> HIDE DEF r
  <2> QED BY SearchBegins DEF PerformNodeSearch, r
<1>2. /\ FrameOK(q)
      /\ q.kind = "NODE_SEARCH_REQ"
      /\ q.master_mac = m
      /\ q.serial = clm[m].slmp_request_serial
  BY DEF MasterInv, MasterType, FrameOK, q,
         cl_slmp_prepare_node_search_request_frame
<1>3. /\ net' \in {net, net \cup {q}}
      /\ clm' = [clm EXCEPT ![m] = r]
      /\ DOMAIN since' = Masters
      /\ UNCHANGED <<cls, asked, served, refused>>
  BY DEF PerformNodeSearch, Types
<1> HIDE DEF r, q
<1>4. /\ clm' \in [Masters -> MasterType]
      /\ clm'[m] = r
      /\ \A n \in Masters : n # m => clm'[n] = clm[n]
  BY <1>1, <1>3 DEF Types, MasterInv
<1>5. Local'
  BY <1>1, <1>2, <1>3, <1>4 DEF Types
<1>6. \A n \in Masters :
         /\ clm'[n].set_ip_request_serial = clm[n].set_ip_request_serial
         /\ clm'[n].set_ip_cfm = clm[n].set_ip_cfm
         /\ clm[n].slmp_request_serial <= clm'[n].slmp_request_serial
         /\ clm'[n].slmp_request_serial \in Int
         /\ clm[n].slmp_request_serial \in Int
         /\ clm[n].set_ip_request_serial \in Int
         /\ clm[n].set_ip_cfm.serial \in Int
  BY <1>1, <1>4, MasterNumbers
<1>7. SerialsIssued'
  <2>1. /\ \A f \in net : f.kind # "ERROR_RESP"
               => f.serial < clm'[f.master_mac].slmp_request_serial
        /\ \A s \in Slaves : cls[s].node_search.master_ip # NoMaster
               => cls[s].node_search.serial
                  < clm'[cls[s].node_search.master_mac].slmp_request_serial
    BY <1>5, <1>6, SerialsStayIssued
  <2>2. q.serial < clm'[q.master_mac].slmp_request_serial
    BY <1>1, <1>2, <1>4, <1>6
  <2>3. \A n \in Masters :
           /\ clm'[n].set_ip_request_serial < clm'[n].slmp_request_serial
           /\ clm'[n].set_ip_cfm.serial < clm'[n].slmp_request_serial
    BY <1>6 DEF SerialsIssued
  <2> QED BY <2>1, <2>2, <2>3, <1>3 DEF SerialsIssued
<1>8. CommandsAnswered'
  <2>1. /\ net \subseteq net'
        /\ \A s \in Slaves : /\ served[s] \subseteq served'[s]
                             /\ refused[s] \subseteq refused'[s]
    BY <1>3
  <2>2. \A n \in Masters, x \in Serials :
           /\ Latest(n, x)' => Latest(n, x)
           /\ Latest(n, x) => asked[n] \in Slaves
    BY <1>6, LatestAsked DEF Latest
  <2>3. ASSUME NEW f \in net
        PROVE  FrameAnswered(f)'
    BY <1>3, <2>1, <2>2, StaysAnswered DEF FrameOK
  <2>4. ASSUME NEW f \in net', f \notin net
        PROVE  FrameAnswered(f)'
    BY <1>2, <1>3, <2>4 DEF FrameAnswered
  <2>5. ASSUME NEW n \in Masters
        PROVE  Told(n)'
    BY <1>3, <1>6, <2>1, RefusedStays DEF CommandsAnswered, Told
  <2> QED BY <2>3, <2>4, <2>5 DEF CommandsAnswered
<1> QED BY <1>5, <1>7, <1>8

(* A command is begun.                                                     *)
LEMMA PerformSetIpStep ==
    ASSUME IInv, NEW m \in Masters, NEW s \in Slaves, NEW sent \in BOOLEAN,
           NEW new_ip \in NewIps[s] \cup {InvalidIp},
           PerformSetIp(m, s, new_ip, sent)
    PROVE  IInv'
<1> DEFINE r == clm_slmp_perform_set_ipaddr_request(
                    [clm[m] EXCEPT !.set_ip_cfm = clm_slmp_init.set_ip_cfm],
                    new_ip, sent)
           q == cl_slmp_prepare_set_ip_request_frame(
                    m, m, clm[m].slmp_request_serial, s, new_ip)
<1> USE DEF IInv, Local
<1>1. /\ MasterInv(r)
      /\ r.slmp_request_serial = clm[m].slmp_request_serial + 1
      /\ r.set_ip_request_serial = IF sent THEN clm[m].slmp_request_serial
                                   ELSE SerialNone
      /\ r.set_ip_cfm.serial = SerialNone
      /\ r.set_ip_cfm.status = "NONE"
  <2> HIDE DEF r
  <2> QED BY CommandBegins DEF PerformSetIp, r
<1>2. /\ FrameOK(q)
      /\ q.kind = "SET_IP_REQ"
      /\ q.master_mac = m
      /\ q.slave_mac = s
      /\ q.serial = clm[m].slmp_request_serial
  BY DEF MasterInv, MasterType, FrameOK, q, PerformSetIp,
         cl_slmp_prepare_set_ip_request_frame
<1>3. /\ net' \in {net, net \cup {q}}
      /\ clm' = [clm EXCEPT ![m] = r]
      /\ asked' = [asked EXCEPT ![m] = s]
      /\ UNCHANGED <<cls, served, refused, since>>
  BY DEF PerformSetIp
<1> HIDE DEF r, q
<1>4. /\ clm' \in [Masters -> MasterType]
      /\ clm'[m] = r
      /\ \A n \in Masters : n # m => clm'[n] = clm[n]
      /\ asked' \in [Masters -> Slaves \cup {NoMaster}]
      /\ asked'[m] = s
      /\ \A n \in Masters : n # m => asked'[n] = asked[n]
  BY <1>1, <1>3 DEF Types, MasterInv
<1>5. Local'
  BY <1>1, <1>2, <1>3, <1>4 DEF Types
<1>6. /\ \A n \in Masters :
            /\ clm[n].slmp_request_serial <= clm'[n].slmp_request_serial
            /\ clm'[n].slmp_request_serial \in Int
            /\ clm[n].slmp_request_serial \in Int
      /\ clm[m].slmp_request_serial \in Nat
  BY <1>1, <1>4, MasterNumbers
<1>7. SerialsIssued'
  <2>1. /\ \A f \in net : f.kind # "ERROR_RESP"
               => f.serial < clm'[f.master_mac].slmp_request_serial
        /\ \A t \in Slaves : cls[t].node_search.master_ip # NoMaster
               => cls[t].node_search.serial
                  < clm'[cls[t].node_search.master_mac].slmp_request_serial
    BY <1>5, <1>6, SerialsStayIssued
  <2>2. q.serial < clm'[q.master_mac].slmp_request_serial
    BY <1>1, <1>2, <1>4, <1>6
  <2>3. \A n \in Masters :
           /\ clm'[n].set_ip_request_serial < clm'[n].slmp_request_serial
           /\ clm'[n].set_ip_cfm.serial < clm'[n].slmp_request_serial
    BY <1>1, <1>4, <1>6 DEF SerialsIssued, SerialNone
  <2> QED BY <2>1, <2>2, <2>3, <1>3 DEF SerialsIssued
<1>8. CommandsAnswered'
  <2>1. /\ net \subseteq net'
        /\ \A t \in Slaves : /\ served[t] \subseteq served'[t]
                             /\ refused[t] \subseteq refused'[t]
    BY <1>3
  <2>2. ASSUME NEW f \in net
        PROVE  FrameAnswered(f)'
    <3>1. CASE f.kind = "ERROR_RESP"
      BY <2>1, <3>1, StaysAnswered
    <3>2. CASE f.kind # "ERROR_RESP" /\ f.master_mac # m
      <4>1. f.master_mac \in Masters /\ f.serial \in Serials
        BY <3>2 DEF FrameOK
      <4>2. /\ asked'[f.master_mac] = asked[f.master_mac]
            /\ clm'[f.master_mac] = clm[f.master_mac]
        BY <1>4, <3>2, <4>1
      <4>3. Latest(f.master_mac, f.serial) => asked[f.master_mac] \in Slaves
        BY <4>1, LatestAsked
      <4>4. Latest(f.master_mac, f.serial)' => Latest(f.master_mac, f.serial)
        BY <4>2 DEF Latest
      <4> QED BY <2>1, <4>2, <4>3, <4>4, StaysAnswered
    <3>3. CASE f.kind # "ERROR_RESP" /\ f.master_mac = m
      <4>1. f.serial \in Nat /\ f.serial < clm[m].slmp_request_serial
        BY <3>3 DEF FrameOK, SerialsIssued, Serials
      <4>2. ~Latest(m, f.serial)'
        BY <1>1, <1>4, <1>6, <4>1 DEF Latest, SerialNone
      <4> QED BY <3>3, <4>2 DEF FrameAnswered
    <3> QED BY <3>1, <3>2, <3>3
  <2>3. ASSUME NEW f \in net', f \notin net
        PROVE  FrameAnswered(f)'
    BY <1>2, <1>3, <1>4, <2>3 DEF FrameAnswered
  <2>4. ASSUME NEW n \in Masters
        PROVE  Told(n)'
    <3>1. CASE n = m
      BY <1>1, <1>4, <3>1 DEF Told
    <3>2. CASE n # m
      BY <1>3, <1>4, <2>1, <3>2, RefusedStays DEF CommandsAnswered, Told
    <3> QED BY <3>1, <3>2
  <2> QED BY <2>2, <2>3, <2>4 DEF CommandsAnswered
<1> QED BY <1>5, <1>7, <1>8

(***************************************************************************)
(* The steps of one master that send nothing: the latest command may end,  *)
(* with what its application is then told being true.                      *)
(***************************************************************************)
LEMMA MasterStep ==
    ASSUME IInv, NEW m \in Masters, NEW r, MasterInv(r),
           clm' = [clm EXCEPT ![m] = r],
           UNCHANGED <<cls, net, asked, served, refused, since>>,
           r.slmp_request_serial = clm[m].slmp_request_serial,
           \/ /\ r.set_ip_request_serial = clm[m].set_ip_request_serial
              /\ r.set_ip_cfm = clm[m].set_ip_cfm
           \/ /\ clm[m].set_ip_request_serial # SerialNone
              /\ r.set_ip_request_serial = SerialNone
              /\ r.set_ip_cfm.serial = clm[m].set_ip_request_serial
              /\ r.set_ip_cfm.status # "NONE"
              /\ r.set_ip_cfm.status = "SUCCESS"
                 => <<m, r.set_ip_cfm.serial>> \in served[asked[m]]
              /\ r.set_ip_cfm.status = "ERROR"
                 => SomeRefused(r.set_ip_cfm.serial)
    PROVE  IInv'
<1> USE DEF IInv, Local
<1>1. /\ clm' \in [Masters -> MasterType]
      /\ clm'[m] = r
      /\ \A n \in Masters : n # m => clm'[n] = clm[n]
  BY DEF Types, MasterInv
<1>2. Local'
  BY <1>1 DEF Types
<1>3. \A n \in Masters :
         /\ clm[n].slmp_request_serial = clm'[n].slmp_request_serial
         /\ clm[n].slmp_request_serial \in Nat
         /\ clm[n].set_ip_request_serial \in Int
         /\ clm[n].set_ip_cfm.serial \in Int
  BY <1>1, MasterNumbers
<1>4. SerialsIssued'
  <2>1. /\ \A f \in net : f.kind # "ERROR_RESP"
               => f.serial < clm'[f.master_mac].slmp_request_serial
        /\ \A s \in Slaves : cls[s].node_search.master_ip # NoMaster
               => cls[s].node_search.serial
                  < clm'[cls[s].node_search.master_mac].slmp_request_serial
    BY <1>2, <1>3, SerialsStayIssued
  <2>2. \A n \in Masters :
           /\ clm'[n].set_ip_request_serial < clm'[n].slmp_request_serial
           /\ clm'[n].set_ip_cfm.serial < clm'[n].slmp_request_serial
    BY <1>1, <1>3 DEF SerialsIssued, SerialNone
  <2> QED BY <2>1, <2>2 DEF SerialsIssued
<1>5. CommandsAnswered'
  <2>1. \A n \in Masters, x \in Serials :
           /\ Latest(n, x)' => Latest(n, x)
           /\ Latest(n, x) => asked[n] \in Slaves
    <3>1. \A x \in Serials : x # SerialNone
      BY DEF Serials, SerialNone
    <3> QED BY <1>1, <3>1, LatestAsked DEF Latest
  <2>2. ASSUME NEW f \in net
        PROVE  FrameAnswered(f)'
    BY <2>1, StaysAnswered DEF FrameOK
  <2>3. ASSUME NEW n \in Masters
        PROVE  Told(n)'
    <3>1. CASE n = m
      BY <1>1, <3>1, RefusedStays DEF CommandsAnswered, Told
    <3>2. CASE n # m
      BY <1>1, <3>2, RefusedStays DEF CommandsAnswered, Told
    <3> QED BY <3>1, <3>2
  <2> QED BY <2>2, <2>3 DEF CommandsAnswered
<1> QED BY <1>2, <1>4, <1>5

(* A request that nobody has answered in time ends.                        *)
LEMMA MasterPeriodicStep ==
    ASSUME IInv, NEW m \in Masters, MasterPeriodic(m)
    PROVE  IInv'
<1> DEFINE r == clm_slmp_check_timeouts(AdvanceSlmp(clm[m], 1))
<1>1. /\ clm' = [clm EXCEPT ![m] = r]
      /\ UNCHANGED <<cls, net, asked, served, refused, since>>
  BY DEF MasterPeriodic
<1>2. MasterInv(clm[m])
  BY DEF IInv, Local
<1> HIDE DEF r
<1>3. /\ MasterInv(r)
      /\ r.slmp_request_serial = clm[m].slmp_request_serial
      /\ \/ /\ r.set_ip_request_serial = clm[m].set_ip_request_serial
            /\ r.set_ip_cfm = clm[m].set_ip_cfm
         \/ /\ clm[m].set_ip_request_serial # SerialNone
            /\ r.set_ip_request_serial = SerialNone
            /\ r.set_ip_cfm = [serial |-> clm[m].set_ip_request_serial,
                               status |-> "TIMEOUT"]
  BY <1>2, TimeoutsChecked, Zenon DEF r
<1>4. CASE r.set_ip_cfm = [serial |-> clm[m].set_ip_request_serial,
                           status |-> "TIMEOUT"]
  <2>1. /\ r.set_ip_cfm.serial = clm[m].set_ip_request_serial
        /\ r.set_ip_cfm.status = "TIMEOUT"
    BY <1>4
  <2> QED BY <1>1, <1>3, <2>1, MasterStep
<1>5. CASE /\ r.set_ip_request_serial = clm[m].set_ip_request_serial
           /\ r.set_ip_cfm = clm[m].set_ip_cfm
  BY <1>1, <1>3, <1>5, MasterStep
<1> QED BY <1>3, <1>4, <1>5

(* A master hears a frame.                                                 *)
LEMMA MasterReceiveStep ==
    ASSUME IInv, NEW m \in Masters, NEW f \in net, MasterReceive(m, f)
    PROVE  IInv'
<1> DEFINE r == clm_slmp_handle_input_frame(clm[m], f, m)
<1>1. /\ clm' = [clm EXCEPT ![m] = r]
      /\ UNCHANGED <<cls, net, asked, served, refused, since>>
  BY DEF MasterReceive
<1>2. /\ MasterInv(clm[m])
      /\ FrameOK(f)
      /\ FrameAnswered(f)
  BY DEF IInv, Local, CommandsAnswered
<1> HIDE DEF r
<1>3. Handled(clm[m], f, m, r)
  BY <1>2, FrameHandled DEF r
<1>4. f.serial # SerialNone
  BY <1>2 DEF FrameOK, Serials, SerialNone
<1>5. ASSUME f.serial = clm[m].set_ip_request_serial
      PROVE  /\ f.kind = "SET_IP_RESP" /\ f.master_mac = m
                => <<m, f.serial>> \in served[asked[m]]
             /\ f.kind = "ERROR_RESP" => SomeRefused(f.serial)
  BY <1>2, <1>5 DEF FrameAnswered, Latest
<1> QED BY <1>1, <1>3, <1>4, <1>5, MasterStep DEF Handled

(* Time passes for a slave, which may answer a search.                     *)
LEMMA SlavePeriodicStep ==
    ASSUME IInv, NEW s \in Slaves, SlavePeriodic(s)
    PROVE  IInv'
<1> DEFINE now == AdvanceSlave(cls[s], 1)
           r == MonitorResponseTimer(now)
           sent == AnswersSent(now, s)
<1> USE DEF IInv, Local
<1>1. /\ cls' = [cls EXCEPT ![s] = r]
      /\ net' = net \cup sent
      /\ UNCHANGED <<clm, asked, served, refused, since>>
  BY DEF SlavePeriodic
<1>2. /\ SlaveInv(r, s)
      /\ r.node_search = cls[s].node_search
      /\ \A f \in sent : /\ FrameOK(f)
                         /\ f.kind = "NODE_SEARCH_RESP"
                         /\ cls[s].node_search.master_ip # NoMaster
                         /\ f.master_mac = cls[s].node_search.master_mac
                         /\ f.serial = cls[s].node_search.serial
  <2> HIDE DEF r, sent, now
  <2> QED BY SlaveTicks DEF r, sent, now
<1> HIDE DEF r, sent, now
<1>3. /\ cls' \in [Slaves -> SlaveType]
      /\ cls'[s] = r
      /\ \A t \in Slaves : t # s => cls'[t] = cls[t]
  BY <1>1, <1>2 DEF Types, SlaveInv
<1>4. Local'
  BY <1>1, <1>2, <1>3 DEF Types
<1>5. SerialsIssued'
  <2>1. \A f \in sent : f.serial < clm[f.master_mac].slmp_request_serial
    BY <1>2 DEF SerialsIssued
  <2> QED BY <1>1, <1>2, <1>3, <2>1 DEF SerialsIssued
<1>6. CommandsAnswered'
  <2>1. ASSUME NEW f \in net
        PROVE  FrameAnswered(f)'
    BY <1>1, LatestAsked, StaysAnswered DEF FrameOK, Latest
  <2>2. ASSUME NEW f \in sent
        PROVE  FrameAnswered(f)'
    BY <1>2, <2>2 DEF FrameAnswered
  <2>3. ASSUME NEW n \in Masters
        PROVE  Told(n)'
    BY <1>1, RefusedStays DEF CommandsAnswered, Told
  <2> QED BY <1>1, <2>1, <2>2, <2>3 DEF CommandsAnswered
<1> QED BY <1>4, <1>5, <1>6

(* A slave hears a request.  A command it carries out or refuses is one of *)
(* those recorded before the answer to it is in net.                       *)
LEMMA SlaveReceiveStep ==
    ASSUME IInv, NEW s \in Slaves, NEW f \in net, NEW done \in BOOLEAN,
           ~cl_slmp_is_header_response(f), SlaveReceive(s, f, done)
    PROVE  IInv'
<1> DEFINE r == cls_slmp_handle_input_frame(cls[s], f, s, s \in Allowed, done)
           sent == IF f.kind = "SET_IP_REQ"
                   THEN SetIpResponse(f, s, s \in Allowed, done) ELSE {}
           id == <<f.master_mac, f.serial>>
           carried == sent # {} /\ s \in Allowed /\ done
           denied == sent # {} /\ ~(s \in Allowed /\ done)
<1> USE DEF IInv, Local
<1>1. /\ cls' = [cls EXCEPT ![s] = r]
      /\ net' = net \cup sent
      /\ served' = [served EXCEPT ![s] = IF carried THEN @ \cup {id} ELSE @]
      /\ refused' = [refused EXCEPT ![s] = IF denied THEN @ \cup {id} ELSE @]
      /\ DOMAIN since' = Masters
      /\ UNCHANGED <<clm, asked>>
  BY DEF SlaveReceive
<1>2. /\ SlaveInv(r, s)
      /\ \/ r.node_search = cls[s].node_search
         \/ /\ f.kind = "NODE_SEARCH_REQ"
            /\ r.node_search.master_mac = f.master_mac
            /\ r.node_search.serial = f.serial
  <2> HIDE DEF r
  <2> QED BY RequestHandled DEF r
<1>3. \A g \in sent :
         /\ f.kind = "SET_IP_REQ"
         /\ FrameOK(g)
         /\ f.slave_mac = s
         /\ g.serial = f.serial
         /\ \/ /\ g.kind = "SET_IP_RESP"
               /\ g.master_mac = f.master_mac
               /\ carried
            \/ g.kind = "ERROR_RESP" /\ denied
  <2> SUFFICES ASSUME NEW g \in sent
               PROVE  /\ f.kind = "SET_IP_REQ"
                      /\ FrameOK(g)
                      /\ f.slave_mac = s
                      /\ g.serial = f.serial
                      /\ \/ /\ g.kind = "SET_IP_RESP"
                            /\ g.master_mac = f.master_mac
                            /\ s \in Allowed /\ done
                         \/ g.kind = "ERROR_RESP" /\ ~(s \in Allowed /\ done)
    OBVIOUS
  <2>1. f.kind = "SET_IP_REQ" /\ g \in SetIpResponse(f, s, s \in Allowed, done)
    OBVIOUS
  <2> HIDE DEF sent
  <2> QED BY <2>1, CommandAnswer
<1>4. f.kind # "ERROR_RESP" /\ f.master_mac \in Masters /\ id \in Masters \X Serials
  BY DEF FrameOK, cl_slmp_is_header_response
<1> HIDE DEF r, sent, carried, denied
<1>5. /\ cls' \in [Slaves -> SlaveType]
      /\ cls'[s] = r
      /\ \A t \in Slaves : t # s => cls'[t] = cls[t]
  BY <1>1, <1>2 DEF Types, SlaveInv
<1>6. /\ served' \in [Slaves -> SUBSET (Masters \X Serials)]
      /\ refused' \in [Slaves -> SUBSET (Masters \X Serials)]
      /\ \A t \in Slaves : /\ served[t] \subseteq served'[t]
                           /\ refused[t] \subseteq refused'[t]
      /\ carried => id \in served'[s]
      /\ denied => id \in refused'[s]
  <2> HIDE DEF id
  <2> QED BY <1>1, <1>4 DEF Types
<1>7. Local'
  BY <1>1, <1>2, <1>3, <1>5, <1>6 DEF Types
<1>8. SerialsIssued'
  <2>1. f.serial < clm[f.master_mac].slmp_request_serial
    BY <1>4 DEF SerialsIssued
  <2>2. \A g \in sent : g.kind # "ERROR_RESP"
           => g.serial < clm[g.master_mac].slmp_request_serial
    BY <1>3, <2>1
  <2> QED BY <1>1, <1>2, <1>5, <2>1, <2>2 DEF SerialsIssued
<1>9. CommandsAnswered'
  <2>1. ASSUME NEW g \in net
        PROVE  FrameAnswered(g)'
    BY <1>1, <1>6, LatestAsked, StaysAnswered DEF FrameOK, Latest
  <2>2. ASSUME NEW g \in sent
        PROVE  FrameAnswered(g)'
    <3>1. CASE g.kind = "SET_IP_RESP"
      <4>1. /\ g.master_mac = f.master_mac /\ g.serial = f.serial
            /\ f.slave_mac = s /\ f.kind = "SET_IP_REQ"
            /\ id \in served'[s]
        BY <1>3, <1>6, <2>2, <3>1
      <4>2. Latest(g.master_mac, g.serial)' => s = asked'[g.master_mac]
        BY <1>1, <4>1 DEF CommandsAnswered, FrameAnswered, Latest
      <4> QED BY <3>1, <4>1, <4>2 DEF FrameAnswered
    <3>2. CASE g.kind = "ERROR_RESP"
      <4>1. /\ f \in net'
            /\ f.kind = "SET_IP_REQ"
            /\ f.serial = g.serial
            /\ <<f.master_mac, f.serial>> \in refused'[f.slave_mac]
        BY <1>1, <1>3, <1>6, <2>2, <3>2
      <4>2. SomeRefused(g.serial)'
        BY <4>1 DEF SomeRefused
      <4> QED BY <3>2, <4>2 DEF FrameAnswered
    <3> QED BY <1>3, <2>2, <3>1, <3>2
  <2>3. ASSUME NEW n \in Masters
        PROVE  Told(n)'
    BY <1>1, <1>6, RefusedStays DEF CommandsAnswered, Told
  <2> QED BY <1>1, <2>1, <2>2, <2>3 DEF CommandsAnswered
<1> QED BY <1>7, <1>8, <1>9

(* The invariant is inductive.                                             *)
LEMMA IInvStep == IInv /\ [Next]_vars => IInv'
<1> SUFFICES ASSUME IInv, [Next]_vars PROVE IInv'
  OBVIOUS
<1>1. CASE UNCHANGED vars
  BY <1>1
  DEF vars, IInv, Local, Types, SerialsIssued, CommandsAnswered,
      FrameAnswered, Told, Latest, SomeRefused
<1>2. ASSUME NEW m \in Masters, NEW sent \in BOOLEAN,
             PerformNodeSearch(m, sent)
      PROVE  IInv'
  BY <1>2, PerformNodeSearchStep
<1>3. ASSUME NEW m \in Masters, NEW s \in Slaves, NEW sent \in BOOLEAN,
             NEW new_ip \in NewIps[s] \cup {InvalidIp},
             PerformSetIp(m, s, new_ip, sent)
      PROVE  IInv'
  BY <1>3, PerformSetIpStep
<1>4. ASSUME NEW m \in Masters, MasterPeriodic(m)
      PROVE  IInv'
  BY <1>4, MasterPeriodicStep
<1>5. ASSUME NEW m \in Masters, NEW f \in net, MasterReceive(m, f)
      PROVE  IInv'
  BY <1>5, MasterReceiveStep
<1>6. ASSUME NEW s \in Slaves, SlavePeriodic(s)
      PROVE  IInv'
  BY <1>6, SlavePeriodicStep
<1>7. ASSUME NEW s \in Slaves, NEW f \in net, NEW done \in BOOLEAN,
             ~cl_slmp_is_header_response(f), SlaveReceive(s, f, done)
      PROVE  IInv'
  BY <1>7, SlaveReceiveStep
<1> QED BY <1>1, <1>2, <1>3, <1>4, <1>5, <1>6, <1>7 DEF Next

LEMMA SpecIInv == Spec => []IInv
  BY InitIInv, IInvStep, PTL DEF Spec

-----------------------------------------------------------------------------
(* The theorems, for any number of masters.                                *)

(* Type correctness: serial numbers, the byte that counts the answers, the *)
(* database that holds no more of them than it has room for (clm_slmp.c,   *)
(* clm_slmp_node_search_add_db), the timers and the slaves' addresses.     *)
THEOREM SlmpTypeCorrect == Spec => []TypeOK
<1>1. IInv => TypeOK
  BY DEF IInv, Local, MasterInv, SlaveInv, MasterType, SlaveType, TypeOK,
         AllIps, Timer
<1> QED BY <1>1, SpecIInv, PTL

(* A request is pending exactly as long as its timer runs, whichever of an *)
(* answer, an error, a timeout and a failed transmission ends it.          *)
THEOREM SlmpTimersFollowRequests == Spec => []TimersFollowRequests
<1>1. IInv => TimersFollowRequests
  BY DEF IInv, Local, MasterInv, TimersFollowRequests
<1> QED BY <1>1, SpecIInv, PTL

(* A master that is told of success asked a slave that has carried out     *)
(* this very command, whatever arrives late, twice or for another master.  *)
THEOREM SlmpSuccessMeansSet == Spec => []SuccessMeansSet
<1>1. IInv => SuccessMeansSet
  BY DEF IInv, CommandsAnswered, Told, SuccessMeansSet
<1> QED BY <1>1, SpecIInv, PTL

(* No two slaves get the same address, as long as each is only given       *)
(* addresses of its own: no slave takes what was meant for another.        *)
THEOREM SlmpAddressesDistinct == Spec => []AddressesDistinct
<1>1. IInv => AddressesDistinct
  BY SlmpAssumption DEF IInv, Local, SlaveInv, SlaveIps, AddressesDistinct
<1> QED BY <1>1, SpecIInv, PTL

(* With several masters, too, an error that a master is told of is not     *)
(* made up: some slave has refused a command with that number.             *)
THEOREM SlmpErrorMeansSomeRefused ==
    Spec => [](\A m \in Masters : clm[m].set_ip_cfm.status = "ERROR"
                   => SomeRefused(clm[m].set_ip_cfm.serial))
<1>1. IInv => \A m \in Masters : clm[m].set_ip_cfm.status = "ERROR"
                  => SomeRefused(clm[m].set_ip_cfm.serial)
  BY DEF IInv, CommandsAnswered, Told
<1> QED BY <1>1, SpecIInv, PTL

(* With several masters, too, what a search finds are slaves, each at an   *)
(* address of its own.                                                     *)
THEOREM SlmpFoundAreSlaves ==
    Spec => [](\A m \in Masters :
                   \A i \in DOMAIN clm[m].node_search_db.entries :
                       clm[m].node_search_db.entries[i] \in Found)
<1>1. IInv => \A m \in Masters :
                  clm[m].node_search_db.entries \in Seq(Found)
  BY DEF IInv, Local, MasterInv, MasterType
<1>2. IInv => \A m \in Masters :
                  \A i \in DOMAIN clm[m].node_search_db.entries :
                      clm[m].node_search_db.entries[i] \in Found
  BY <1>1
<1> QED BY <1>2, SpecIInv, PTL

-----------------------------------------------------------------------------
(***************************************************************************)
(* The theorems that need a master alone on its network.  An error         *)
(* response does not name the master it is for, and the name in the answer *)
(* to a search is not looked at (clm_slmp.c), so masters that count their  *)
(* requests from 0 can take each other's frames for their own.             *)
(***************************************************************************)

(* A master alone that is told of an error asked a slave that has refused  *)
(* this very command.                                                      *)
THEOREM SlmpErrorMeansRefused ==
    ASSUME OneMaster
    PROVE  Spec => []ErrorMeansRefused
<1>1. ASSUME IInv PROVE ErrorMeansRefused
  <2> SUFFICES ASSUME NEW m \in Masters, clm[m].set_ip_cfm.status = "ERROR"
               PROVE  <<m, clm[m].set_ip_cfm.serial>> \in refused[asked[m]]
    BY DEF ErrorMeansRefused
  <2>1. PICK g \in net : /\ g.kind = "SET_IP_REQ"
                         /\ g.serial = clm[m].set_ip_cfm.serial
                         /\ <<g.master_mac, g.serial>> \in refused[g.slave_mac]
    BY <1>1 DEF IInv, CommandsAnswered, Told, SomeRefused
  <2>2. g.master_mac = m
    BY <1>1, <2>1 DEF IInv, Local, FrameOK, OneMaster
  <2>3. g.slave_mac = asked[m]
    BY <1>1, <2>1, <2>2 DEF IInv, CommandsAnswered, FrameAnswered, Latest
  <2> QED BY <2>1, <2>2, <2>3
<1> QED BY <1>1, SpecIInv, PTL

(* A search begins with an empty database and no answer to it in net.      *)
LEMMA SearchBeginsFresh ==
    ASSUME OneMaster, IInv, SearchInv,
           NEW m \in Masters, NEW sent \in BOOLEAN, PerformNodeSearch(m, sent)
    PROVE  SearchInv'
<1> DEFINE r == clm_slmp_perform_node_search(clm[m], sent)
           q == cl_slmp_prepare_node_search_request_frame(
                    m, m, clm[m].slmp_request_serial)
<1>1. /\ r.slmp_request_serial = clm[m].slmp_request_serial + 1
      /\ r.node_search_serial = IF sent THEN clm[m].slmp_request_serial
                                ELSE SerialNone
      /\ r.node_search_db.entries = << >>
      /\ clm[m].slmp_request_serial \in Nat
  <2> HIDE DEF r
  <2> QED BY SearchBegins, MasterNumbers DEF IInv, Local, PerformNodeSearch, r
<1>2. /\ clm'[m] = r
      /\ net' \in {net, net \cup {q}}
      /\ since'[m] = {<<s, cls[s].ip>> : s \in Slaves}
      /\ cls' = cls
  BY DEF PerformNodeSearch, IInv, Local, Types
<1>3. \A n \in Masters : n = m
  BY DEF OneMaster
<1>4. \A f \in net' : f.kind = "NODE_SEARCH_RESP"
         => f.serial < clm[m].slmp_request_serial /\ f.serial \in Nat
  <2>1. q.kind = "NODE_SEARCH_REQ"
    BY DEF cl_slmp_prepare_node_search_request_frame
  <2>2. \A f \in net : f.kind = "NODE_SEARCH_RESP"
           => f.serial < clm[m].slmp_request_serial /\ f.serial \in Nat
    BY <1>3 DEF IInv, Local, FrameOK, SerialsIssued, Serials
  <2> HIDE DEF q
  <2> QED BY <1>2, <2>1, <2>2
<1> HIDE DEF r, q
<1>5. SearchAnswered'
  BY <1>1, <1>2, <1>3, <1>4 DEF SearchAnswered, SerialNone
<1>6. FoundSinceSearch'
  BY <1>1, <1>2, <1>3 DEF FoundSinceSearch
<1> QED BY <1>5, <1>6 DEF SearchInv

(* Every other step keeps the search true.                                 *)
LEMMA SearchInvStep ==
    ASSUME OneMaster, IInv, SearchInv, [Next]_vars
    PROVE  SearchInv'
<1> USE DEF SearchInv
<1>1. CASE UNCHANGED vars
  BY <1>1 DEF vars, SearchAnswered, FoundSinceSearch
<1>2. ASSUME NEW m \in Masters, NEW sent \in BOOLEAN,
             PerformNodeSearch(m, sent)
      PROVE  SearchInv'
  BY <1>2, SearchBeginsFresh
<1>3. ASSUME NEW m \in Masters, NEW s \in Slaves, NEW sent \in BOOLEAN,
             NEW new_ip \in NewIps[s] \cup {InvalidIp},
             PerformSetIp(m, s, new_ip, sent)
      PROVE  SearchInv'
  <2> DEFINE r == clm_slmp_perform_set_ipaddr_request(
                      [clm[m] EXCEPT !.set_ip_cfm = clm_slmp_init.set_ip_cfm],
                      new_ip, sent)
             q == cl_slmp_prepare_set_ip_request_frame(
                      m, m, clm[m].slmp_request_serial, s, new_ip)
  <2>1. /\ r.slmp_request_serial = clm[m].slmp_request_serial + 1
        /\ r.node_search_serial = clm[m].node_search_serial
        /\ r.node_search_db = clm[m].node_search_db
        /\ clm[m].slmp_request_serial \in Nat
        /\ clm[m].node_search_serial \in Int
    <3> HIDE DEF r
    <3> QED
      BY <1>3, CommandBegins, MasterNumbers DEF IInv, Local, PerformSetIp, r
  <2>2. /\ clm'[m] = r
        /\ net' \in {net, net \cup {q}}
        /\ UNCHANGED <<cls, since>>
    BY <1>3 DEF PerformSetIp, IInv, Local, Types
  <2>3. \A n \in Masters : n = m
    BY DEF OneMaster
  <2>4. q.kind = "SET_IP_REQ"
    BY DEF cl_slmp_prepare_set_ip_request_frame
  <2> HIDE DEF r, q
  <2>5. SearchAnswered'
    BY <2>1, <2>2, <2>3, <2>4 DEF SearchAnswered
  <2>6. FoundSinceSearch'
    BY <2>1, <2>2, <2>3 DEF FoundSinceSearch
  <2> QED BY <2>5, <2>6
<1>4. ASSUME NEW m \in Masters, MasterPeriodic(m)
      PROVE  SearchInv'
  <2> DEFINE r == clm_slmp_check_timeouts(AdvanceSlmp(clm[m], 1))
  <2>1. /\ clm'[m] = r
        /\ UNCHANGED <<cls, net, since>>
    BY <1>4 DEF MasterPeriodic, IInv, Local, Types
  <2>2. MasterInv(clm[m])
    BY DEF IInv, Local
  <2> HIDE DEF r
  <2>3. /\ r.slmp_request_serial = clm[m].slmp_request_serial
        /\ r.node_search_serial \in {clm[m].node_search_serial, SerialNone}
        /\ r.node_search_db = clm[m].node_search_db
    BY <2>2, TimeoutsChecked, Zenon DEF r
  <2>4. \A n \in Masters : n = m
    BY DEF OneMaster
  <2> QED BY <2>1, <2>3, <2>4 DEF SearchAnswered, FoundSinceSearch
<1>5. ASSUME NEW m \in Masters, NEW f \in net, MasterReceive(m, f)
      PROVE  SearchInv'
  <2> DEFINE r == clm_slmp_handle_input_frame(clm[m], f, m)
             e == [slave_mac |-> f.slave_mac, slave_ip |-> f.slave_ip]
             old == clm[m].node_search_db.entries
  <2>1. /\ clm'[m] = r
        /\ UNCHANGED <<cls, net, since>>
    BY <1>5 DEF MasterReceive, IInv, Local, Types
  <2> HIDE DEF r
  <2>2. Handled(clm[m], f, m, r)
    BY FrameHandled DEF IInv, Local, r
  <2>3. \A n \in Masters : n = m
    BY DEF OneMaster
  <2>4. SearchAnswered'
    BY <2>1, <2>2, <2>3 DEF SearchAnswered, Handled
  <2>5. \A i \in DOMAIN old : <<old[i].slave_mac, old[i].slave_ip>> \in since[m]
    BY DEF FoundSinceSearch
  <2>6. CASE r.node_search_db.entries = old
    BY <2>1, <2>3, <2>4, <2>5, <2>6 DEF FoundSinceSearch
  <2>7. CASE /\ r.node_search_db.entries = Append(old, e)
             /\ f.kind = "NODE_SEARCH_RESP"
             /\ f.serial = clm[m].node_search_serial
    <3>1. f.serial # SerialNone
      BY DEF IInv, Local, FrameOK, Serials, SerialNone
    <3>2. <<f.slave_mac, f.slave_ip>> \in since[m]
      BY <2>7, <3>1 DEF SearchAnswered
    <3>3. old \in Seq(Found)
      BY DEF IInv, Local, MasterInv, MasterType
    <3> HIDE DEF old
    <3>4. \A i \in DOMAIN Append(old, e) :
             \/ i \in DOMAIN old /\ Append(old, e)[i] = old[i]
             \/ Append(old, e)[i] = e
      BY <3>3
    <3>5. \A i \in DOMAIN Append(old, e) :
             <<Append(old, e)[i].slave_mac, Append(old, e)[i].slave_ip>>
                 \in since[m]
      BY <2>5, <3>2, <3>4
    <3> QED BY <2>1, <2>3, <2>4, <2>7, <3>5 DEF FoundSinceSearch
  <2> QED BY <2>2, <2>4, <2>6, <2>7 DEF Handled
<1>6. ASSUME NEW s \in Slaves, SlavePeriodic(s)
      PROVE  SearchInv'
  <2> DEFINE now == AdvanceSlave(cls[s], 1)
             r == MonitorResponseTimer(now)
             sent == AnswersSent(now, s)
  <2>1. /\ cls'[s] = r
        /\ \A t \in Slaves : t # s => cls'[t] = cls[t]
        /\ net' = net \cup sent
        /\ UNCHANGED <<clm, since>>
    BY <1>6 DEF SlavePeriodic, IInv, Local, Types
  <2>2. /\ r.ip = cls[s].ip
        /\ \A f \in sent : f.slave_mac = s /\ f.slave_ip = cls[s].ip
    <3> HIDE DEF r, sent, now
    <3> QED BY SlaveTicks DEF IInv, Local, r, sent, now
  <2> HIDE DEF r, sent, now
  <2>3. SearchAnswered'
    BY <2>1, <2>2 DEF SearchAnswered
  <2> QED BY <2>1, <2>3 DEF FoundSinceSearch
<1>7. ASSUME NEW s \in Slaves, NEW f \in net, NEW done \in BOOLEAN,
             ~cl_slmp_is_header_response(f), SlaveReceive(s, f, done)
      PROVE  SearchInv'
  <2> DEFINE sent == IF f.kind = "SET_IP_REQ"
                     THEN SetIpResponse(f, s, s \in Allowed, done) ELSE {}
  <2>1. /\ net' = net \cup sent
        /\ clm' = clm
        /\ \A n \in Masters : since'[n] = since[n] \cup {<<s, cls'[s].ip>>}
        /\ \A t \in Slaves : t # s => cls'[t] = cls[t]
    BY <1>7 DEF SlaveReceive, IInv, Local, Types
  <2>2. \A g \in sent : g.kind # "NODE_SEARCH_RESP"
    BY DEF SetIpResponse, cl_slmp_prepare_set_ip_response_frame,
           cl_slmp_prepare_error_response_frame
  <2> HIDE DEF sent
  <2>3. SearchAnswered'
    BY <2>1, <2>2 DEF SearchAnswered
  <2> QED BY <2>1, <2>3 DEF FoundSinceSearch
<1> QED BY <1>1, <1>2, <1>3, <1>4, <1>5, <1>6, <1>7 DEF Next

(* A master alone finds slaves at addresses they have had since its search *)
(* began: the answer to an earlier search is not taken for one to this.    *)
THEOREM SlmpFoundSinceSearch ==
    ASSUME OneMaster
    PROVE  Spec => []FoundSinceSearch
<1>1. IInv /\ SearchInv /\ [Next]_vars => (IInv /\ SearchInv)'
  BY IInvStep, SearchInvStep
<1>2. IInv /\ SearchInv => FoundSinceSearch
  BY DEF SearchInv
<1> QED BY InitIInv, <1>1, <1>2, PTL DEF Spec
=============================================================================
