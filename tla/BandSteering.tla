---------------------------- MODULE BandSteering ----------------------------
(***************************************************************************)
(* The band steering daemon of bndstrg.c.  It hears of clients from the     *)
(* Wi-Fi driver, keeps them in the table of BndStrgTable, and once a second *)
(* tells the driver which client may join on which band.                   *)
(*                                                                         *)
(* Requests to the driver are ioctls and take effect at once; whatever the  *)
(* driver has to say comes back through a netlink socket, in order, and     *)
(* waits there (nl) until the event loop reads it.  What the socket buffer  *)
(* cannot hold is lost.                                                    *)
(*                                                                         *)
(* The driver and the clients are external.  They are modelled from what    *)
(* the daemon asks of them and how it reads their answers: an access list   *)
(* and a switch per band, and the band each client is associated on.       *)
(*                                                                         *)
(* Time is counted in units long against the one second period of           *)
(* bndstrg_periodic_exec, which therefore runs at least once in each.       *)
(***************************************************************************)
EXTENDS BndStrgTable, Sequences

CONSTANTS
  FRAMES,          \* the probe and auth requests each client sends
  PARAMS,          \* the parameters the table starts with
  PARAM_CHANGES,   \* pairs of a parameter and a value a command gives it
  DBDC,            \* both bands on one chip
  BACKLOG,         \* the kinds of messages that may wait when the timer fires
  DOWNS,           \* bands whose interface may go down and up again
  DELS,            \* clients that a command may remove from the table
  JOINS,           \* clients that associate
  SIGTERM,         \* the daemon may be asked to end
  NL_MAX,          \* messages the socket buffer holds
  INPUT_MAX,       \* a frame or a command comes while fewer messages than this wait
  AUTH_WRAP        \* 256: AuthReqCount is a u8

ASSUME SteeringAssumption ==
  /\ NL_MAX \in Nat \ {0} /\ AUTH_WRAP \in Nat \ {0} /\ INPUT_MAX \in 1 .. NL_MAX
  /\ {DBDC, SIGTERM} \subseteq BOOLEAN
  /\ DOWNS \subseteq Bands /\ DELS \subseteq ADDRS /\ JOINS \subseteq ADDRS
  /\ PARAMS.AgeTime \in Nat /\ PARAMS.CheckTime_5G < PARAMS.AgeTime
  /\ \A c \in PARAM_CHANGES : c[1] = "AgeTime" => c[2] <= PARAMS.AgeTime
  /\ \A a \in ADDRS : FRAMES[a] \subseteq
       [Band : Bands, Type : {"PROBE", "AUTH"}, Rssi : [1 .. 3 -> Int], Ht : BOOLEAN]

VARIABLES
  table,   \* the entries and their chains
  par,     \* RssiDiff, RssiLow, AgeTime, HoldTime, CheckTime_5G, ConditionCheck
  ctl,     \* the other fields of struct bndstrg_cli_table
  nl,      \* the netlink socket
  drv,     \* the driver: interfaces up, bands steered, access lists, associations
  pc,      \* "running", "stopping" once eloop_terminate was called, "exited"
  ran      \* bndstrg_periodic_exec has run in this unit of time

vars == <<table, par, ctl, nl, drv, pc, ran>>

NONE == "none"
Conditions == {"RSSI_DIFF", "2G_PERSIST", "HT_SUPPORT", "5G_RSSI"}

Tracked == {table.Entry[i].Addr : i \in Valid(table)}
Access(a) == {b \in Bands : a \in drv.acc[b]}

-----------------------------------------------------------------------------
(* The driver.                                                             *)

\* Messages that arrive at the socket; the buffer keeps what it can
Push(queue, msgs) ==
  SubSeq(queue \o msgs, 1, Min({NL_MAX, Len(queue) + Len(msgs)}))

\* INF_STATUS_QUERY: the driver reports on the interface, or on both
StatusReply(b) ==
  IF DBDC THEN [Action |-> "INF_STATUS_RSP_DBDC", Ready |-> drv.up]
  ELSE [Action |-> "INF_STATUS_RSP", Band |-> b, Ready |-> drv.up \cap {b}]

\* BNDSTRG_ONOFF: the driver switches the band and confirms it
OnOffReply(b, on) == [Action |-> "BNDSTRG_ONOFF", Band |-> b, OnOff |-> on]

\* CLI_AGING_REQ: the driver refuses for a client associated on that band
AgingReply(i, b) ==
  [Action |-> "CLI_AGING_RSP", Index |-> i, Addr |-> table.Entry[i].Addr,
   Band |-> b, On |-> drv.conn[table.Entry[i].Addr]]

\* ReturnCode = BND_STRG_SUCCESS; the daemon reads no more than this of On
Success(msg) == msg.On # msg.Band

ClientFrame(a, f) ==
  /\ f.Band \in drv.on
  /\ Len(nl) < INPUT_MAX
  /\ nl' = Append(nl, [Action |-> "CONNECTION_REQ", Addr |-> a, Frame |-> f])
  /\ UNCHANGED <<table, par, ctl, drv, pc, ran>>

\* A client joins on a band that is not steered, or where it has access
Associate(a, b) ==
  /\ drv.conn[a] = NONE /\ b \in drv.up
  /\ b \in drv.on => b \in Access(a)
  /\ drv' = [drv EXCEPT !.conn[a] = b]
  /\ UNCHANGED <<table, par, ctl, nl, pc, ran>>

Disassociate(a) ==
  /\ drv.conn[a] # NONE
  /\ drv' = [drv EXCEPT !.conn[a] = NONE]
  /\ UNCHANGED <<table, par, ctl, nl, pc, ran>>

InterfaceDown(b) ==
  /\ b \in drv.up
  /\ drv' = [drv EXCEPT !.up = @ \ {b}, !.on = @ \ {b}, !.acc[b] = {},
               !.conn = [a \in ADDRS |-> IF @[a] = b THEN NONE ELSE @[a]]]
  /\ nl' = Push(nl, <<OnOffReply(b, FALSE)>>)
  /\ UNCHANGED <<table, par, ctl, pc, ran>>

InterfaceUp(b) ==
  /\ b \notin drv.up
  /\ drv' = [drv EXCEPT !.up = @ \cup {b}]
  /\ UNCHANGED <<table, par, ctl, nl, pc, ran>>

\* A command removes a client from the table by its address
CliDel(a) ==
  /\ Len(nl) < INPUT_MAX
  /\ nl' = Append(nl, [Action |-> "CLI_DEL", Addr |-> a, Index |-> MAX_TABLE_SIZE])
  /\ UNCHANGED <<table, par, ctl, drv, pc, ran>>

\* A command changes a parameter of the table
SetParameter(p, v) ==
  /\ Len(nl) < INPUT_MAX
  /\ nl' = Append(nl, [Action |-> "SET", Param |-> p, Value |-> v])
  /\ UNCHANGED <<table, par, ctl, drv, pc, ran>>

-----------------------------------------------------------------------------
(* bndstrg_event_handle: one action per kind of message.                   *)

Receive(action) ==
  /\ pc \in {"running", "stopping"} /\ ~table.hung
  /\ nl # <<>> /\ Head(nl).Action = action
  /\ nl' = Tail(nl)
  /\ UNCHANGED <<drv, pc, ran>>

\* The strongest antenna.  A zero is skipped, except on the first antenna,
\* where it counts as a signal and outdoes every real one
MaxRssi(rssi) == Max({rssi[1]} \cup ({rssi[2], rssi[3]} \ {0}))

\* AuthReqCount is a u8.  Counting goes on in 0 .. 2 * AUTH_WRAP - 1, so that a
\* counter that came round to zero is told from one that never counted
CountUp(c) == IF c + 1 = 2 * AUTH_WRAP THEN AUTH_WRAP ELSE c + 1
U8(c) == c % AUTH_WRAP

\* bndstrg_check_conn_req and bndstrg_update_entry_statistics: what a frame
\* does to the entry e of its sender
UpdateEntry(e, f) ==
  LET b == f.Band
      rssi == MaxRssi(f.Rssi)
      low == CASE rssi = 0 -> e.Control_Flags \cap {LowRssi(b)}
               [] rssi # 0 -> IF rssi < par.RssiLow THEN {LowRssi(b)} ELSE {}
      noHt == IF f.Type = "PROBE" /\ ~f.Ht THEN {NotSupportHt(b)} ELSE {}
  IN [e EXCEPT !.Rssi[b] = rssi,
               !.AuthReqCount[b] = IF f.Type = "AUTH" THEN CountUp(@) ELSE @,
               !.Control_Flags = (@ \ {LowRssi(b)}) \cup low \cup noHt \cup {Support(b)}]

bndstrg_check_conn_req ==
  /\ Receive("CONNECTION_REQ")
  /\ LET msg == Head(nl)
         found == bndstrg_table_lookup(table, msg.Addr)
         t == IF found = NULL THEN bndstrg_insert_entry(table, msg.Addr) ELSE table
         entry == IF found # NULL THEN found
                  ELSE IF table.Size < MAX_TABLE_SIZE THEN Vacancy(table) ELSE NULL
     IN table' = CASE ~ctl.bEnabled -> table
                   [] ctl.bEnabled /\ found = LOOP -> [table EXCEPT !.hung = TRUE]
                   [] ctl.bEnabled /\ found # LOOP /\ entry = NULL -> t
                   [] ctl.bEnabled /\ found # LOOP /\ entry # NULL ->
                        [t EXCEPT !.Entry[entry] = UpdateEntry(@, msg.Frame)]
  /\ UNCHANGED <<par, ctl>>

InfStatusRsp ==
  /\ \/ Receive("INF_STATUS_RSP")
        /\ ctl' = [ctl EXCEPT !.status_queried = TRUE, !.dbdc_mode = FALSE,
                     !.InfReady = (@ \ {Head(nl).Band}) \cup Head(nl).Ready]
     \/ Receive("INF_STATUS_RSP_DBDC")
        /\ ctl' = [ctl EXCEPT !.status_queried = TRUE, !.dbdc_mode = TRUE,
                     !.InfReady = Head(nl).Ready]
  /\ UNCHANGED <<table, par>>

\* bEnabled is set once both bands are on and never taken back
bndstrg_event_on_off ==
  /\ Receive("BNDSTRG_ONOFF")
  /\ LET b == Head(nl).Band
         band == IF Head(nl).OnOff THEN ctl.Band \cup {b} ELSE ctl.Band \ {b}
     IN ctl' = [ctl EXCEPT
                  !.Band = band,
                  !.InfReady = IF Head(nl).OnOff THEN @ ELSE @ \ {b},
                  !.bEnabled = @ \/ band = Bands]
  /\ UNCHANGED <<table, par>>

\* The answers of the bands are remembered in the slot the answer names; the
\* second one deletes whatever entry is there
CliAgingRsp ==
  /\ Receive("CLI_AGING_RSP")
  /\ LET msg == Head(nl)
         t == [table EXCEPT !.Entry[msg.Index].AgingConfirmed = @ \cup {msg.Band}]
     IN table' = CASE ~Success(msg) -> table
                   [] Success(msg) ->
                        IF t.Entry[msg.Index].AgingConfirmed = Bands
                        THEN bndstrg_delete_entry(t, msg.Addr, msg.Index) ELSE t
  /\ UNCHANGED <<par, ctl>>

CliDelete ==
  /\ Receive("CLI_DEL")
  /\ table' = bndstrg_delete_entry(table, Head(nl).Addr, Head(nl).Index)
  /\ UNCHANGED <<par, ctl>>

SetCommand ==
  /\ Receive("SET")
  /\ par' = [par EXCEPT ![Head(nl).Param] = Head(nl).Value]
  /\ UNCHANGED <<table, ctl>>

-----------------------------------------------------------------------------
(* The decision for one client.                                            *)

Dual(e) == {Support("2G"), Support("5G")} \subseteq e.Control_Flags

\* Condition 1: the signal on 2.4G is better by RssiDiff.  The code tests
\* Rssi & Rssi: strengths are negative or 0, so it is 0 only when one is 0.
RssiDiffers(e) ==
  /\ "RSSI_DIFF" \in par.ConditionCheck
  /\ e.Rssi["2G"] # 0 /\ e.Rssi["5G"] # 0
  /\ e.Rssi["2G"] - e.Rssi["5G"] >= par.RssiDiff

\* Condition 2: the client keeps asking for 2.4G and never for 5G
Persists(e) ==
  /\ "2G_PERSIST" \in par.ConditionCheck
  /\ e.elapsed >= par.HoldTime
  /\ U8(e.AuthReqCount["5G"]) = 0 /\ U8(e.AuthReqCount["2G"]) # 0

LegacyOn5G(e) ==
  /\ "HT_SUPPORT" \in par.ConditionCheck
  /\ NotSupportHt("5G") \in e.Control_Flags

_bndstrg_allow_sta_conn_2g(e) ==
  \/ /\ Dual(e)
     /\ \/ RssiDiffers(e)
        \/ Persists(e)
        \/ /\ "5G_RSSI" \in par.ConditionCheck
           /\ LowRssi("5G") \in e.Control_Flags /\ Allow("5G") \notin e.Control_Flags
        \/ LegacyOn5G(e)
  \/ Is2GOnly \in e.Control_Flags

\* The signal check at the end of _bndstrg_allow_sta_conn_5g
StrongOn5G(e) ==
  "5G_RSSI" \in par.ConditionCheck /\ e.Rssi["5G"] # 0 /\ e.Rssi["5G"] > par.RssiLow

_bndstrg_allow_sta_conn_5g(e) ==
  /\ Support("5G") \in e.Control_Flags
  /\ Dual(e) =>
       /\ ~RssiDiffers(e) /\ ~Persists(e) /\ ~LegacyOn5G(e)
       /\ e.Rssi["5G"] # 0
       /\ "5G_RSSI" \in par.ConditionCheck => StrongOn5G(e)

\* The flag that _bndstrg_allow_sta_conn_5g takes back, without telling the driver
Revoked(e) ==
  IF _bndstrg_allow_sta_conn_5g(e) /\ Dual(e) /\ StrongOn5G(e) THEN {Allow("2G")} ELSE {}

Aged(e) == e.elapsed >= par.AgeTime

\* A plausible slip: a client is never found to be on 2.4G only
Mark_Never(e) == e

\* The entry after the test for a client that is on 2.4G only
Mark2GOnly(e) ==
  IF e.elapsed >= par.CheckTime_5G /\ Support("5G") \notin e.Control_Flags
  THEN [e EXCEPT !.Control_Flags = @ \cup {Is2GOnly}] ELSE e

\* The entry after the decision on 2.4G, and then on 5G
Decide2G(e) ==
  IF _bndstrg_allow_sta_conn_2g(e)
  THEN [e EXCEPT !.Control_Flags = @ \cup {Allow("2G")}] ELSE e

Decide5G(e) ==
  LET allowed == IF _bndstrg_allow_sta_conn_5g(e) THEN {Allow("5G")} ELSE {}
  IN IF Is2GOnly \in e.Control_Flags THEN e
     ELSE [e EXCEPT !.Control_Flags = ((@ \ {Allow("5G")}) \ Revoked(e)) \cup allowed]

Decide(e) == Decide5G(Decide2G(Mark2GOnly(e)))

-----------------------------------------------------------------------------
(* bndstrg_periodic_exec.                                                  *)

Timer ==
  /\ pc = "running" /\ ~table.hung
  /\ \A k \in DOMAIN nl : nl[k].Action \in BACKLOG
  /\ ran' = TRUE
  /\ UNCHANGED par

\* Both counters run for the life of the daemon
GivesUp == ctl.status_queried_cnt >= 3 \/ ctl.table_enable_cnt >= 3

GiveUp ==
  /\ Timer /\ GivesUp
  /\ pc' = "stopping"
  /\ UNCHANGED <<table, ctl, nl, drv>>

\* The interface whose status is asked for, if one is not known to be ready
AskFor ==
  IF ~ctl.status_queried \/ "2G" \notin ctl.InfReady THEN {"2G"}
  ELSE {"5G"} \ ctl.InfReady

\* A plausible slip: only the very first question is counted
Query_Uncounted ==
  /\ Timer /\ ~GivesUp
  /\ \E b \in AskFor : nl' = Push(nl, <<StatusReply(b)>>)
  /\ ctl' = [ctl EXCEPT !.status_queried_cnt = IF ctl.status_queried THEN @ ELSE @ + 1]
  /\ UNCHANGED <<table, drv, pc>>

QueryStatus ==
  /\ Timer /\ ~GivesUp
  /\ \E b \in AskFor : nl' = Push(nl, <<StatusReply(b)>>)
  /\ ctl' = [ctl EXCEPT !.status_queried_cnt = @ + 1]
  /\ UNCHANGED <<table, drv, pc>>

\* A plausible slip: the second band waits for a run that never comes
Enable_First ==
  /\ Timer /\ ~GivesUp /\ AskFor = {} /\ ~ctl.bEnabled
  /\ ctl' = [ctl EXCEPT !.bEnabled = TRUE]
  /\ drv' = [drv EXCEPT !.on = @ \cup {"2G"}]
  /\ UNCHANGED <<table, nl, pc>>

\* What the driver answers when the bands that are not on are switched on
OnReplies ==
  (IF "2G" \in ctl.Band THEN <<>> ELSE <<OnOffReply("2G", TRUE)>>)
  \o (IF "5G" \in ctl.Band THEN <<>> ELSE <<OnOffReply("5G", TRUE)>>)

\* Both interfaces are ready: switch the bands on that are not on
Enable ==
  /\ Timer /\ ~GivesUp /\ AskFor = {} /\ ~ctl.bEnabled
  /\ ctl' = [ctl EXCEPT !.table_enable_cnt = @ + 1]
  /\ drv' = [drv EXCEPT !.on = @ \cup (Bands \ ctl.Band)]
  /\ nl' = Push(nl, OnReplies)
  /\ UNCHANGED <<table, pc>>

AgedSlots == {i \in Valid(table) : Aged(table.Entry[i])}
YoungSlots == Valid(table) \ AgedSlots
AddrsOf(S) == {table.Entry[i].Addr : i \in S}

\* The answers to the CLI_AGING_REQs of one run, which goes through the slots
SlotReplies(i) ==
  IF i \in AgedSlots THEN <<AgingReply(i, "2G"), AgingReply(i, "5G")>> ELSE <<>>

AgingReplies ==
  LET upTo[k \in 0 .. MAX_TABLE_SIZE] ==
        IF k = 0 THEN <<>> ELSE upTo[k - 1] \o SlotReplies(k - 1)
  IN upTo[MAX_TABLE_SIZE]

\* The clients told apart by the driver calls of one run: a band granted with
\* CLI_ADD, one withdrawn, and one the driver itself forgets when it agrees
\* that the client has aged
Granted(b) ==
  {i \in YoungSlots :
    LET e == Mark2GOnly(table.Entry[i])
    IN CASE b = "2G" -> Allow("2G") \notin e.Control_Flags /\ _bndstrg_allow_sta_conn_2g(e)
         [] b = "5G" -> Is2GOnly \notin e.Control_Flags
                        /\ _bndstrg_allow_sta_conn_5g(Decide2G(e))}

Withdrawn(b) ==
  {i \in YoungSlots :
    LET e == Decide2G(Mark2GOnly(table.Entry[i]))
    IN b = "5G" /\ Is2GOnly \notin e.Control_Flags /\ ~_bndstrg_allow_sta_conn_5g(e)}

Forgotten(b) == {i \in AgedSlots : Success(AgingReply(i, b))}

DecideAll ==
  /\ Timer /\ ~GivesUp /\ AskFor = {} /\ ctl.bEnabled
  /\ table' = [table EXCEPT !.Entry = [i \in Slots |->
                 IF i \in YoungSlots THEN Decide(@[i]) ELSE @[i]]]
  /\ drv' = [drv EXCEPT !.acc = [b \in Bands |->
                 (@[b] \cup AddrsOf(Granted(b)))
                 \ AddrsOf(Withdrawn(b) \cup Forgotten(b))]]
  /\ nl' = Push(nl, AgingReplies)
  /\ UNCHANGED <<ctl, pc>>

bndstrg_periodic_exec == GiveUp \/ QueryStatus \/ Enable \/ DecideAll

\* SIGTERM
bndstrg_terminate ==
  /\ SIGTERM /\ pc = "running"
  /\ pc' = "stopping"
  /\ UNCHANGED <<table, par, ctl, nl, drv, ran>>

\* The end of bndstrg_run, once eloop_run has returned: the bands it turns off
TurnedOff ==
  IF ctl.dbdc_mode THEN ({"2G"} \cap ctl.Band) \cup ({"5G"} \ ctl.Band)
  ELSE Bands \ ctl.Band

bndstrg_run_end ==
  /\ pc = "stopping" /\ ~table.hung
  /\ pc' = "exited"
  /\ drv' = [drv EXCEPT !.on = @ \ TurnedOff]
  /\ UNCHANGED <<table, par, ctl, nl, ran>>

\* A unit of time passes; entries are only told apart up to AgeTime
Older(e) == [e EXCEPT !.elapsed = Min({@ + 1, PARAMS.AgeTime})]

Tick ==
  /\ ran
  /\ ran' = (pc # "running")
  /\ table' = [table EXCEPT !.Entry = [i \in Slots |->
                 IF i \in Valid(table) THEN Older(@[i]) ELSE @[i]]]
  /\ UNCHANGED <<par, ctl, nl, drv, pc>>

-----------------------------------------------------------------------------
Init ==
  /\ table = EmptyTable
  /\ par = PARAMS
  /\ ctl = [bEnabled |-> FALSE, Band |-> {}, InfReady |-> {}, status_queried |-> FALSE,
            status_queried_cnt |-> 0, table_enable_cnt |-> 0, dbdc_mode |-> FALSE]
  /\ nl = <<>>
  /\ drv = [up |-> Bands, on |-> {}, acc |-> [b \in Bands |-> {}],
            conn |-> [a \in ADDRS |-> NONE]]
  /\ pc = "running"
  /\ ran = FALSE

event_handle ==
  \/ bndstrg_check_conn_req \/ InfStatusRsp \/ bndstrg_event_on_off
  \/ CliAgingRsp \/ CliDelete \/ SetCommand

\* What happens outside is of interest while the daemon runs
Driver ==
  /\ pc = "running"
  /\ \/ \E a \in ADDRS : \E f \in FRAMES[a] : ClientFrame(a, f)
     \/ \E a \in JOINS, b \in Bands : Associate(a, b)
     \/ \E a \in JOINS : Disassociate(a)
     \/ \E a \in DELS : CliDel(a)
     \/ \E b \in DOWNS : InterfaceDown(b) \/ InterfaceUp(b)
     \/ \E c \in PARAM_CHANGES : SetParameter(c[1], c[2])

Daemon == event_handle \/ bndstrg_periodic_exec \/ bndstrg_terminate \/ bndstrg_run_end

Next == Driver \/ Daemon \/ Tick

Spec == Init /\ [][Next]_vars

\* The event loop serves its socket, looks at its timer in every round, and
\* time goes on
LiveSpec ==
  /\ Spec
  /\ WF_vars(event_handle) /\ WF_vars(bndstrg_periodic_exec) /\ WF_vars(Tick)

-----------------------------------------------------------------------------
Messages ==
  [Action : {"CONNECTION_REQ"}, Addr : ADDRS, Frame : UNION {FRAMES[a] : a \in ADDRS}]
  \cup [Action : {"INF_STATUS_RSP"}, Band : Bands, Ready : SUBSET Bands]
  \cup [Action : {"INF_STATUS_RSP_DBDC"}, Ready : SUBSET Bands]
  \cup [Action : {"BNDSTRG_ONOFF"}, Band : Bands, OnOff : BOOLEAN]
  \cup [Action : {"CLI_AGING_RSP"}, Index : Slots, Addr : ADDRS, Band : Bands, On : Bands \cup {NONE}]
  \cup [Action : {"CLI_DEL"}, Addr : ADDRS, Index : {MAX_TABLE_SIZE}]
  \cup {[Action |-> "SET", Param |-> c[1], Value |-> c[2]] : c \in PARAM_CHANGES}

EntryOK(e) ==
  /\ e.bValid => e.Addr \in ADDRS
  /\ e.AgingConfirmed \subseteq Bands /\ e.Control_Flags \subseteq Flags
  /\ e.elapsed \in 0 .. PARAMS.AgeTime
  /\ \A b \in Bands : e.AuthReqCount[b] \in 0 .. 2 * AUTH_WRAP - 1

\* Types of the variables: Size stays within the array bndstrg_insert_entry
\* fills, and every chain link names a slot of it
TypeOK ==
  /\ \A i \in Slots : EntryOK(table.Entry[i]) /\ table.pNext[i] \in Slots \cup {NULL}
  /\ \A h \in Buckets : table.Hash[h] \in Slots \cup {NULL}
  /\ table.Size \in 0 .. MAX_TABLE_SIZE /\ {table.hung, table.stale} \subseteq BOOLEAN
  /\ ctl.Band \subseteq Bands /\ ctl.InfReady \subseteq Bands
  /\ ctl.status_queried_cnt \in 0 .. 3 /\ ctl.table_enable_cnt \in 0 .. 3
  /\ Len(nl) <= NL_MAX /\ \A k \in DOMAIN nl : nl[k] \in Messages
  /\ pc \in {"running", "stopping", "exited"}

\* Size, which bndstrg_insert_entry trusts for "table is full", is the number of
\* valid entries, whatever entry a delayed CLI_AGING_RSP or a CLI_DEL hits
SizeCountsValid == table.Size = Cardinality(Valid(table))

\* The chains of bndstrg_table_lookup index the table: a chain holds the valid
\* entries of its bucket, each once, and ends; no client has two entries.  Only
\* a late CLI_AGING_RSP that meets another client's entry can break them
ChainsIndexTable ==
  ~table.stale =>
    /\ \A h \in Buckets :
         /\ OnChain(table, h) = {i \in Valid(table) : HASH[table.Entry[i].Addr] = h}
         /\ Walk(table, h)[MAX_TABLE_SIZE] = NULL
    /\ \A i, j \in Valid(table) : table.Entry[i].Addr = table.Entry[j].Addr => i = j
    /\ ~table.hung

\* bndstrg_delete_entry unlinks the entry it deletes from the chain it searches,
\* however late the CLI_AGING_RSP is that asks for it, until one of them meets a
\* slot that has another owner by now
DeleteFindsEntry ==
  [][~table'.stale =>
       \A i \in Valid(table) \ Valid(table') :
         i \in OnChain(table, HASH[Head(nl).Addr])]_vars

\* The same of every deletion, as bndstrg_delete_entry has it in its
\* "ASSERT(this_entry != NULL)".  The code does not keep it
AnyDeleteFindsEntry ==
  [][\A i \in Valid(table) \ Valid(table') :
       i \in OnChain(table, HASH[Head(nl).Addr])]_vars

\* An entry is aged out only if the client was on neither band when the driver
\* answered
AgedNotConnected ==
  [][\A i \in Valid(table) \ Valid(table') :
       Head(nl).Action = "CLI_AGING_RSP" => Head(nl).On = NONE]_vars

\* A client that enters the table gets access to one of the bands, by the
\* decisions of bndstrg_periodic_exec, before the entry ages
NewClientServed ==
  \A a \in ADDRS :
    (\E i \in Valid(table) : table.Entry[i].Addr = a /\ table.Entry[i].elapsed = 0)
      ~> (Access(a) # {} \/ pc # "running")

\* "If both 2G inf and 5G inf are ready, then tell driver to start running": as
\* long as the interfaces stay up, steering starts on both
SteeringStarts ==
  (pc = "running" /\ ctl.InfReady = Bands)
    ~> (drv.on = Bands \/ pc # "running" \/ drv.up # Bands)

\* The daemon does not poll an interface that stays down for ever: it is ready in
\* the end, or the daemon leaves
PollingEnds ==
  (pc = "running" /\ AskFor # {}) ~> (AskFor = {} \/ pc # "running")

\* The daemon does not give up while both interfaces are ready and it is enabled
ReadyKeepsRunning ==
  [][GiveUp => ~(ctl.InfReady = Bands /\ ctl.bEnabled)]_vars
=============================================================================
