---------------------------- MODULE Connections ----------------------------
(***************************************************************************)
(* The control socket of lmkd: clients connect, send commands and go; the  *)
(* main thread accepts them into one of MAX_DATA_CONN data_sock slots and  *)
(* handles what epoll_wait reported in two passes, dropped connections     *)
(* first.  An event names a slot, not a connection, so that it may be      *)
(* stale when its turn comes.  The commands act on the process records     *)
(* (ProcTable), whose claims end with the connection of the claimant.      *)
(*                                                                         *)
(* lmkd answers some commands and tells subscribers of its kills.  These   *)
(* writes wait as long as the socket has no room for them: the main thread *)
(* then waits for its client, and does nothing else.                       *)
(***************************************************************************)
EXTENDS ProcTable, FiniteSets, FiniteSetsExt

CONSTANTS
    Conns,          \* every connection ever made
    Peer,           \* the client at the other end of each
    NoConn,         \* a free data_sock slot
    MAX_DATA_CONN,
    BaseEvents,     \* epoll registrations other than data connections: ctrl_sock at least
    MaxMsgs,        \* bound on the unread commands of one connection
    MaxUnread,      \* messages to a client that its socket has room for
    HazardSets      \* sets of hazards to consider: see HazardKinds

(* "fail":    accept, EPOLL_CTL_ADD and reading credentials may fail;      *)
(* "overlap": a client may connect again before its connection is closed;  *)
(* "writes":  lmkd kills processes and answers commands, and writes to its *)
(*            clients.                                                     *)
HazardKinds == {"fail", "overlap", "writes"}

ASSUME ConnectionsAssumption ==
    /\ Peer \in [Conns -> Clients]
    /\ NoConn \notin Conns
    /\ MAX_DATA_CONN \in Nat \ {0}
    /\ BaseEvents \in Nat \ {0} /\ MaxMsgs \in Nat /\ MaxUnread \in Nat \ {0}
    /\ HazardSets \subseteq SUBSET HazardKinds

Slots == 0..(MAX_DATA_CONN - 1)

VARIABLES
    stage,      \* "new", "backlog" (connected, not accepted), "open" or "closed"
    backlog,    \* the connections to accept, in order
    peerOpen,   \* connections the client has not closed
    inbox,      \* number of commands sent and not read
    unread,     \* number of messages lmkd wrote and the client did not read
    sock,       \* data_sock[].sock
    dpid,       \* data_sock[].pid
    mask,       \* LMK_ASYNC_EVENT_KILL in data_sock[].async_event_mask
    maxevents,
    batch,      \* events epoll_wait returned and not handled yet
    mpc,        \* "loop", "read", "reply" or "notify"
    cur,        \* slot of the event being handled, or of the client to notify
    subscribed, \* connections that sent LMK_SUBSCRIBE
    hazards     \* what may happen in this behaviour

clientVars == <<stage, backlog, peerOpen, inbox, unread>>
sockVars   == <<sock, dpid, mask, maxevents>>
vars == <<tableVars, clientVars, sockVars, batch, mpc, cur, subscribed, hazards>>

(* What epoll reports: data or a hangup in a slot, a connection request, or *)
(* what makes lmkd look for a process to kill.                             *)
Connect  == [kind |-> "connect", slot |-> -1, conn |-> NoConn]
Pressure == [kind |-> "pressure", slot |-> -1, conn |-> NoConn]

Init ==
    /\ ProcTableInit
    /\ stage = [k \in Conns |-> "new"]
    /\ backlog = <<>>
    /\ peerOpen = {}
    /\ inbox = [k \in Conns |-> 0]
    /\ unread = [k \in Conns |-> 0]
    /\ sock = [i \in Slots |-> NoConn]
    /\ dpid = [i \in Slots |-> NoClient]
    /\ mask = [i \in Slots |-> FALSE]
    /\ maxevents = BaseEvents
    /\ batch = {}
    /\ mpc = "loop"
    /\ cur = -1
    /\ subscribed = {}
    /\ hazards \in HazardSets

-----------------------------------------------------------------------------
(* The clients. *)
ClientConnect(k) ==
    /\ stage[k] = "new"
    /\ \/ "overlap" \in hazards
       \/ \A j \in peerOpen : Peer[j] # Peer[k]
    /\ stage' = [stage EXCEPT ![k] = "backlog"]
    /\ backlog' = Append(backlog, k)
    /\ peerOpen' = peerOpen \cup {k}
    /\ UNCHANGED <<tableVars, inbox, unread, sockVars, batch, mpc, cur, subscribed>>

(* Which command was sent is decided when it is read. *)
ClientSend(k) ==
    /\ k \in peerOpen /\ stage[k] \in {"backlog", "open"}
    /\ inbox[k] < MaxMsgs
    /\ inbox' = [inbox EXCEPT ![k] = @ + 1]
    /\ UNCHANGED <<tableVars, stage, backlog, peerOpen, unread, sockVars, batch, mpc, cur, subscribed>>

ClientRead(k) ==
    /\ k \in peerOpen /\ unread[k] > 0
    /\ unread' = [unread EXCEPT ![k] = @ - 1]
    /\ UNCHANGED <<tableVars, stage, backlog, peerOpen, inbox, sockVars, batch, mpc, cur, subscribed>>

ClientClose(k) ==
    /\ k \in peerOpen
    /\ peerOpen' = peerOpen \ {k}
    /\ unread' = [unread EXCEPT ![k] = 0]
    /\ UNCHANGED <<tableVars, stage, backlog, inbox, sockVars, batch, mpc, cur, subscribed>>

-----------------------------------------------------------------------------
Raised(i) ==
    IF sock[i] = NoConn THEN {}
    ELSE IF sock[i] \notin peerOpen
    THEN {[kind |-> "hup", slot |-> i, conn |-> sock[i]]}
    ELSE IF inbox[sock[i]] > 0
    THEN {[kind |-> "in", slot |-> i, conn |-> sock[i]]}
    ELSE {}

(* Every ready source is reported, as far as there is room for it. *)
EpollWait ==
    /\ mpc = "loop" /\ batch = {}
    /\ \E pressure \in SUBSET {e \in {Pressure} : "writes" \in hazards} :
         LET all == (UNION {Raised(i) : i \in Slots}) \cup pressure
                      \cup (IF backlog # <<>> THEN {Connect} ELSE {})
         IN  \E b \in SUBSET all :
               /\ b # {} /\ Cardinality(b) <= maxevents
               /\ b = all \/ Cardinality(b) = maxevents
               /\ batch' = b
    /\ UNCHANGED <<tableVars, clientVars, sockVars, mpc, cur, subscribed>>

-----------------------------------------------------------------------------
(* lmkd closes connections and accepts others; what the clients still do   *)
(* with a closed one makes no difference to lmkd.                          *)
Close(closed, accepted) ==
    /\ stage' = [k \in Conns |-> IF k \in closed THEN "closed"
                                 ELSE IF k \in accepted THEN "open" ELSE stage[k]]
    /\ peerOpen' = peerOpen \ closed
    /\ inbox' = [k \in Conns |-> IF k \in closed THEN 0 ELSE inbox[k]]
    /\ unread' = [k \in Conns |-> IF k \in closed THEN 0 ELSE unread[k]]
    /\ subscribed' = subscribed \ closed

(* Mutant: the claims are kept. *)
ReleasedClaims_None(closing) == rec

ReleasedClaims(closing) ==
    [pid \in Pids |->
       IF rec[pid] # NoRecord /\ \E i \in closing : dpid[i] = rec[pid].reg_pid
       THEN [rec[pid] EXCEPT !.reg_pid = NoClient]
       ELSE rec[pid]]

(* Mutant: maxevents is not decremented. *)
ctrl_data_close_Uncounted(i) ==
    /\ Close({sock[i]}, {})
    /\ sock' = [sock EXCEPT ![i] = NoConn]
    /\ rec' = ReleasedClaims({i})
    /\ UNCHANGED <<slot, dpid, mask, maxevents>>

ctrl_data_close(i) ==
    /\ Close({sock[i]}, {})
    /\ sock' = [sock EXCEPT ![i] = NoConn]
    /\ rec' = ReleasedClaims({i})
    /\ maxevents' = maxevents - 1
    /\ UNCHANGED <<slot, dpid, mask>>

(* Mutant: the hangup is not acted on. *)
Dropped_Ignored(e) ==
    /\ mpc = "loop" /\ e \in batch /\ e.kind = "hup"
    /\ batch' = batch \ {e}
    /\ UNCHANGED <<tableVars, clientVars, sockVars, mpc, cur, subscribed>>

(* The first pass of mainloop. *)
Dropped(e) ==
    /\ mpc = "loop" /\ e \in batch /\ e.kind = "hup"
    /\ ctrl_data_close(e.slot)
    /\ batch' = batch \ {e}
    /\ UNCHANGED <<backlog, mpc, cur>>

(* Mutant: a single pass. *)
SecondPass_Any == mpc = "loop"

SecondPass == mpc = "loop" /\ \A e \in batch : e.kind # "hup"

get_free_dsock == {i \in Slots : sock[i] = NoConn}

(* Mutant: the subscription of the slot stays. *)
Unsubscribed_Kept(i) == mask

Unsubscribed(i) == [mask EXCEPT ![i] = FALSE]

(* ctrl_connect_handler: the lowest free slot, or slot 0 after all         *)
(* connections were dropped.  data_sock[].pid is not reset.  epoll may     *)
(* refuse the connection, and accept may fail, which leaves it waiting.    *)
ctrl_connect_handler ==
    /\ SecondPass /\ Connect \in batch
    /\ batch' = batch \ {Connect}
    /\ LET k       == Head(backlog)
           full    == get_free_dsock = {}
           closing == IF full THEN Slots ELSE {}
           dropped == {sock[j] : j \in closing}
           i       == IF full THEN 0 ELSE Min(get_free_dsock)
           freed   == [j \in Slots |-> IF full THEN NoConn ELSE sock[j]]
       IN  \/ /\ backlog' = Tail(backlog)
              /\ sock' = [freed EXCEPT ![i] = k]
              /\ Close(dropped, {k})
              /\ maxevents' = maxevents - Cardinality(closing) + 1
              /\ mask' = Unsubscribed(i)
              /\ rec' = ReleasedClaims(closing)
           \/ /\ "fail" \in hazards
              /\ backlog' = Tail(backlog)
              /\ sock' = freed
              /\ Close(dropped \cup {k}, {})
              /\ maxevents' = maxevents - Cardinality(closing) - 1
              /\ mask' = Unsubscribed(i)
              /\ rec' = ReleasedClaims(closing \cup {i})
           \/ /\ "fail" \in hazards
              /\ sock' = freed
              /\ Close(dropped, {})
              /\ maxevents' = maxevents - Cardinality(closing)
              /\ rec' = ReleasedClaims(closing)
              /\ UNCHANGED <<backlog, mask>>
    /\ UNCHANGED <<slot, dpid, mpc, cur>>

(* pid_remove of some pids; nobody looks at the records in between. *)
Remove(pids) ==
    /\ rec' = [pid \in Pids |-> IF pid \in pids THEN NoRecord ELSE rec[pid]]
    /\ slot' = [a \in Adjs |-> SelectSeq(slot[a], LAMBDA pid : pid \notin pids)]

(* What recvmsg in slot i may find.  Nothing, on a slot that was closed or *)
(* a connection that ended:                                                *)
ReadNothing(i) ==
    /\ sock[i] # NoConn => sock[i] \notin peerOpen /\ inbox[sock[i]] = 0
    /\ mpc' = "loop" /\ cur' = -1
    /\ UNCHANGED <<tableVars, clientVars, sockVars, subscribed>>

HasCommand(i) == sock[i] # NoConn /\ inbox[sock[i]] > 0

(* A command: the peer's pid is stored, then the command is carried out.   *)
(* LMK_GETKILLCNT, LMK_UPDATE_PROPS and LMK_BOOT_COMPLETED are answered    *)
(* (KillCount and Monitors have what else they do).                        *)
CtrlCommand(i) ==
    /\ HasCommand(i)
    /\ LET k == sock[i]
           c == Peer[k]
       IN  /\ inbox' = [inbox EXCEPT ![k] = @ - 1]
           /\ dpid' = [dpid EXCEPT ![i] = c]
           /\ \/ /\ \E pid \in Pids :
                      \/ \E adj \in Adjs : apply_proc_prio(pid, adj, TRUE, c, TRUE)
                      \/ cmd_procremove(pid, c)
                      \/ Remove(Purgeable(c))
                 /\ mpc' = "loop" /\ cur' = -1
                 /\ UNCHANGED <<mask, subscribed>>
              \/ /\ mask' = [mask EXCEPT ![i] = TRUE]
                 /\ subscribed' = subscribed \cup {k}
                 /\ mpc' = "loop" /\ cur' = -1
                 /\ UNCHANGED tableVars
              \/ /\ "writes" \in hazards
                 /\ mpc' = "reply" /\ cur' = i
                 /\ UNCHANGED <<tableVars, mask, subscribed>>
    /\ UNCHANGED <<stage, backlog, peerOpen, unread, sock, maxevents>>

(* A command without the credentials of its sender: ctrl_data_read closes  *)
(* the connection.                                                         *)
ReadNoCredentials(i) ==
    /\ HasCommand(i)
    /\ "fail" \in hazards
    /\ ctrl_data_close(i)
    /\ mpc' = "loop" /\ cur' = -1
    /\ UNCHANGED backlog

Receive(i) == ReadNothing(i) \/ CtrlCommand(i) \/ ReadNoCredentials(i)

(* ctrl_data_handler; recvmsg waits on an open connection that sent        *)
(* nothing.                                                                *)
ctrl_data_handler(e) ==
    /\ SecondPass /\ e \in batch /\ e.kind = "in"
    /\ batch' = batch \ {e}
    /\ \/ Receive(e.slot)
       \/ /\ sock[e.slot] \in peerOpen /\ inbox[sock[e.slot]] = 0
          /\ mpc' = "read" /\ cur' = e.slot
          /\ UNCHANGED <<tableVars, clientVars, sockVars, subscribed>>

WaitingRead ==
    /\ mpc = "read"
    /\ Receive(cur)
    /\ UNCHANGED batch

(* write fails on a connection the client has closed, and waits for room   *)
(* on an open one.                                                         *)
ctrl_data_write(k) ==
    \/ k \notin peerOpen /\ UNCHANGED unread
    \/ /\ k \in peerOpen /\ unread[k] < MaxUnread
       /\ unread' = [unread EXCEPT ![k] = @ + 1]

Reply ==
    /\ mpc = "reply"
    /\ ctrl_data_write(sock[cur])
    /\ mpc' = "loop" /\ cur' = -1
    /\ UNCHANGED <<tableVars, stage, backlog, peerOpen, inbox, sockVars, batch, subscribed>>

Recorded == {pid \in Pids : rec[pid] # NoRecord}

Subscribers == {i \in Slots : sock[i] # NoConn /\ mask[i]}

(* find_and_kill_process, in a poll before the events or for one of them:  *)
(* processes that cannot be killed lose their records, and one may be      *)
(* killed, which the subscribers are told before its record is removed.    *)
find_and_kill_process ==
    /\ mpc = "loop" /\ Pressure \in batch
    /\ batch' = batch \ {Pressure}
    /\ \/ /\ \E gone \in SUBSET Recorded : Remove(gone)
          /\ UNCHANGED <<mpc, cur>>
       \/ /\ Subscribers # {}
          /\ \E gone \in SUBSET Recorded : gone # Recorded /\ Remove(gone)
          /\ mpc' = "notify" /\ cur' = Min(Subscribers)
    /\ UNCHANGED <<clientVars, sockVars, subscribed>>

(* One subscriber after the other.  Those of LMK_ASYNC_EVENT_STAT are      *)
(* written to in the same manner.                                          *)
ctrl_data_write_lmk_kill_occurred ==
    /\ mpc = "notify"
    /\ ctrl_data_write(sock[cur])
    /\ LET left == {i \in Subscribers : i > cur}
       IN  \/ /\ left # {}
              /\ cur' = Min(left)
              /\ UNCHANGED <<tableVars, mpc>>
           \/ /\ left = {}
              /\ \E pid \in Recorded : Remove({pid})
              /\ mpc' = "loop" /\ cur' = -1
    /\ UNCHANGED <<stage, backlog, peerOpen, inbox, sockVars, batch, subscribed>>

-----------------------------------------------------------------------------
ClientStep ==
    \E k \in Conns :
      ClientConnect(k) \/ ClientSend(k) \/ ClientRead(k) \/ ClientClose(k)

MainStep ==
    \/ EpollWait
    \/ \E e \in batch : Dropped(e) \/ ctrl_data_handler(e)
    \/ ctrl_connect_handler
    \/ WaitingRead \/ Reply
    \/ find_and_kill_process \/ ctrl_data_write_lmk_kill_occurred

Next == (ClientStep \/ MainStep) /\ UNCHANGED hazards

Spec == Init /\ [][Next]_vars

(* The main thread goes on whenever nothing holds it up.  That clients     *)
(* read what lmkd writes to them, or close, nothing in lmkd can ensure: it *)
(* is assumed of them.                                                     *)
FairSpec ==
    /\ Spec
    /\ WF_vars(MainStep /\ UNCHANGED hazards)
    /\ WF_vars((\E k \in Conns : ClientRead(k)) /\ UNCHANGED hazards)

-----------------------------------------------------------------------------
TypeOK ==
    /\ TableTypeOK
    /\ stage \in [Conns -> {"new", "backlog", "open", "closed"}]
    /\ backlog \in Seq(Conns)
    /\ peerOpen \in SUBSET Conns
    /\ inbox \in [Conns -> 0..MaxMsgs]
    /\ unread \in [Conns -> 0..MaxUnread]
    /\ sock \in [Slots -> Conns \cup {NoConn}]
    /\ dpid \in [Slots -> Clients \cup {NoClient}]
    /\ mask \in [Slots -> BOOLEAN]
    /\ maxevents \in Int
    /\ mpc \in {"loop", "read", "reply", "notify"}
    /\ cur \in Slots \cup {-1}
    /\ subscribed \in SUBSET Conns

(* A claim ends with the connections of its client: a record claimed by a  *)
(* client that is not connected could be changed by nobody any more        *)
(* (ctrl_data_close: "Mark all records of the old registrant as            *)
(* unclaimed").                                                            *)
ClaimantIsConnected ==
    /\ TypeOK
    /\ \A pid \in Pids :
         rec[pid] # NoRecord /\ rec[pid].reg_pid # NoClient
           => \E i \in Slots : sock[i] # NoConn /\ Peer[sock[i]] = rec[pid].reg_pid

(* A kill notification goes only to connections that asked for it,         *)
(* whatever an earlier connection in the same slot had asked for (lmkd.h   *)
(* and async_event_mask; the comment on ctrl_data_write_lmk_kill_occurred, *)
(* "all active clients will receive this", is older than subscriptions).   *)
OnlySubscribersNotified ==
    \A i \in Slots : sock[i] # NoConn /\ mask[i] => sock[i] \in subscribed

(* maxevents never exceeds what is registered, so that epoll_wait cannot   *)
(* write past the events array of mainloop, however connections come, go   *)
(* and are dropped; and unless epoll refused a connection, every source    *)
(* has its place.                                                          *)
EventsFit ==
    LET registered == BaseEvents + Cardinality({i \in Slots : sock[i] # NoConn})
    IN  /\ maxevents <= registered
        /\ "fail" \notin hazards => maxevents = registered

(* An event reaches the connection it was raised for, or a slot that was   *)
(* closed meanwhile, never a newer connection (the first pass of mainloop  *)
(* is there for connections "dropped and reestablished in the same epoll   *)
(* cycle").  When the slots run out all connections are dropped with their *)
(* events still to come, so the property is for no more clients than slots *)
(* and one connection of a client at a time; and it is for no failures:    *)
(* each refused connection lowers maxevents, until a batch has no room for *)
(* every hangup.                                                           *)
EventsReachTheirConnection ==
    hazards \subseteq {"writes"} /\ Cardinality(Clients) <= MAX_DATA_CONN =>
      \A e \in batch : e.kind \in {"in", "hup"} => sock[e.slot] \in {e.conn, NoConn}

(* A connection request is served, and a dropped connection frees its      *)
(* slot, in the end, as long as clients that stay connected read what lmkd *)
(* writes to them: neither a read of a stale event nor a write to a client *)
(* that went away holds up the main thread for good.                       *)
ConnectionsServed ==
    \A k \in Conns :
      LET Waiting == \/ stage[k] = "backlog"
                     \/ stage[k] = "open" /\ k \notin peerOpen
      IN  hazards \subseteq {"writes"} => []<>~Waiting
=============================================================================
