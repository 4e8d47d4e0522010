--------------------------- MODULE EndpointReport ---------------------------
(***************************************************************************)
(* How central learns the address of a storage server's data endpoint:     *)
(* once with each registration, and from the server's endpoint watcher,    *)
(* which reports changes with UpdateStorageEndpoint.                       *)
(*                                                                         *)
(* The watcher compares with a copy of its own of the last address it      *)
(* reported, which a new registration does not touch: the copy that        *)
(* connect_and_register and update_storage_endpoint write is read only     *)
(* when the watcher starts.  A report that timed out may be handled later, *)
(* after a newer one.                                                      *)
(***************************************************************************)
EXTENDS Registration, Sequences

CONSTANTS Addrs,
          Watched,   \* bound: the servers whose address changes
          MaxFaults  \* bound: changes of address, reports that time out and
                     \* connections that break, together

ASSUME EndpointAssumption ==
  /\ Watched \subseteq Servers
  /\ MaxFaults \in Nat
  /\ Addrs # {} /\ None \notin Addrs

VARIABLES addr,      \* [Servers -> the address it has]
          sampled,   \* [Conns -> the address in its RegisterStorage request]
          endpoint,  \* [Conns -> iroh_endpoint of its peer]
          watcher,   \* [Servers -> where its watcher is]
          updated,   \* servers whose watch has a value the watcher has not seen
          pending,   \* servers with pending_report
          last,      \* [Servers -> last_reported_endpoint of the watcher]
          request,   \* [Servers -> the report its watcher awaits, or None]
          late,      \* reports that timed out at the server, still to be handled
          unwatched, \* servers whose address changed before the watch began
          disowned,  \* connections on which a report was handled that timed out
          faults     \* changes of address and reports that timed out

endpointVars == <<addr, sampled, endpoint, watcher, updated, pending, last, request, late,
                  unwatched, disowned, faults>>
vars == <<registrationVars, endpointVars>>

FirstAddr == CHOOSE a \in Addrs : TRUE

EndpointInit ==
  /\ RegistrationInit
  /\ addr = [s \in Servers |-> FirstAddr]
  /\ sampled = [c \in Conns |-> None]
  /\ endpoint = [c \in Conns |-> None]
  /\ watcher = [s \in Servers |-> "off"]
  /\ updated = {}
  /\ pending = {}
  /\ last = [s \in Servers |-> None]
  /\ request = [s \in Servers |-> None]
  /\ late = {}
  /\ unwatched = {}
  /\ disowned = {}
  /\ faults = 0

CanFail == breaks + faults < MaxFaults
Fault == CanFail /\ faults' = faults + 1

-----------------------------------------------------------------------------
(* The address of the transport changes; a watch that exists notes it.     *)
Move(s, a) ==
  /\ s \in Watched /\ a # addr[s]
  /\ Fault
  /\ addr' = [addr EXCEPT ![s] = a]
  /\ updated' = IF watcher[s] = "off" THEN updated ELSE updated \cup {s}
  /\ unwatched' = unwatched \ {s}
  /\ UNCHANGED <<registrationVars, sampled, endpoint, watcher, pending, last, request, late,
                 disowned>>

(* register_storage samples the address it sends.                          *)
DialSampled(s, c) ==
  /\ Dial(s, c)
  /\ sampled' = [sampled EXCEPT ![c] = addr[s]]
  /\ UNCHANGED <<addr, endpoint, watcher, updated, pending, last, request, late, unwatched,
                 disowned, faults>>

InsertPeer(c) ==
  /\ Insert(c)
  /\ endpoint' = [endpoint EXCEPT ![c] = sampled[c]]
  /\ UNCHANGED <<addr, sampled, watcher, updated, pending, last, request, late, unwatched,
                 disowned, faults>>

(* spawn_endpoint_addr_watcher: the watch begins with the address of now,  *)
(* the watcher's copy with the one that was registered.                    *)
StartWatcher(s) ==
  /\ Start(s)
  /\ watcher' = [watcher EXCEPT ![s] = "waiting"]
  /\ last' = [last EXCEPT ![s] = sampled[current[s]]]
  /\ unwatched' = IF addr[s] # sampled[current[s]] THEN unwatched \cup {s} ELSE unwatched
  /\ UNCHANGED <<addr, sampled, endpoint, updated, pending, request, late, disowned, faults>>

(* Wait for an update, unless a report is pending; then sleep.             *)
Notice(s) ==
  /\ watcher[s] = "waiting"
  /\ s \in pending \cup updated
  /\ updated' = IF s \in pending THEN updated ELSE updated \ {s}
  /\ watcher' = [watcher EXCEPT ![s] = "settling"]
  /\ UNCHANGED <<registrationVars, addr, sampled, endpoint, pending, last, request, late,
                 unwatched, disowned, faults>>

(* The address of now is the one last reported: nothing to do.             *)
Skip(s) ==
  /\ watcher[s] = "settling" /\ addr[s] = last[s]
  /\ watcher' = [watcher EXCEPT ![s] = "waiting"]
  /\ pending' = pending \ {s}
  /\ updated' = updated \ {s}
  /\ UNCHANGED <<registrationVars, addr, sampled, endpoint, last, request, late, unwatched,
                 disowned, faults>>

Failing_dropped(s) == pending
Failing(s) == pending \cup {s}

(* update_storage_endpoint without a registration.                         *)
Unavailable(s) ==
  /\ watcher[s] = "settling" /\ addr[s] # last[s]
  /\ ~Registered(s)
  /\ watcher' = [watcher EXCEPT ![s] = "waiting"]
  /\ pending' = Failing(s)
  /\ updated' = updated \ {s}
  /\ UNCHANGED <<registrationVars, addr, sampled, endpoint, last, request, late, unwatched,
                 disowned, faults>>

Report(s) ==
  /\ watcher[s] = "settling" /\ addr[s] # last[s]
  /\ Registered(s)
  /\ watcher' = [watcher EXCEPT ![s] = "reporting"]
  /\ request' = [request EXCEPT ![s] = [conn |-> current[s], addr |-> addr[s], handled |-> FALSE]]
  /\ updated' = updated \ {s}
  /\ UNCHANGED <<registrationVars, addr, sampled, endpoint, pending, last, late, unwatched,
                 disowned, faults>>

(* Central's handler, while the connection is registered.                  *)
HandleReport(s) ==
  LET r == request[s]
  IN  /\ r # None /\ ~r.handled /\ r.conn \in storages
      /\ endpoint' = [endpoint EXCEPT ![r.conn] = r.addr]
      /\ request' = [request EXCEPT ![s].handled = TRUE]
      /\ UNCHANGED <<registrationVars, addr, sampled, watcher, updated, pending, last, late,
                     unwatched, disowned, faults>>

Reported(s) ==
  /\ request[s] # None /\ request[s].handled
  /\ request[s].conn # None /\ request[s].conn = current[s]
  /\ watcher' = [watcher EXCEPT ![s] = "waiting"]
  /\ last' = [last EXCEPT ![s] = request[s].addr]
  /\ pending' = pending \ {s}
  /\ request' = [request EXCEPT ![s] = None]
  /\ UNCHANGED <<registrationVars, addr, sampled, endpoint, updated, late, unwatched, disowned,
                 faults>>

(* The report fails with its connection, or it times out and may be        *)
(* handled later.                                                          *)
Abandon(s) ==
  /\ watcher' = [watcher EXCEPT ![s] = "waiting"]
  /\ pending' = Failing(s)
  /\ request' = [request EXCEPT ![s] = None]

ReportFails(s) ==
  /\ request[s] # None /\ request[s].conn \in (Conns \ {current[s]}) \cup {None}
  /\ Abandon(s)
  /\ UNCHANGED <<registrationVars, addr, sampled, endpoint, updated, last, late, unwatched,
                 disowned, faults>>

ReportTimesOut(s) ==
  /\ request[s] # None /\ Fault
  /\ late' = IF request[s].handled \/ request[s].conn = None THEN late ELSE late \cup {request[s]}
  /\ Abandon(s)
  /\ disowned' = disowned \cup IF request[s].handled THEN {request[s].conn} \ {None} ELSE {}
  /\ UNCHANGED <<registrationVars, addr, sampled, endpoint, updated, last, unwatched>>

HandleLate(r) ==
  /\ late' = late \ {r}
  /\ endpoint' = [endpoint EXCEPT ![r.conn] =
                    IF r.conn \in storages THEN r.addr ELSE @]
  /\ disowned' = disowned \cup {r.conn}
  /\ UNCHANGED <<registrationVars, addr, sampled, watcher, updated, pending, last, request,
                 unwatched, faults>>

(* A connection's slot is free for another one when central forgets it.    *)
Cleanup(c) ==
  /\ Unmount(c) \/ DropAnonymous(c)
  /\ late' = {r \in late : r.conn # c}
  /\ disowned' = disowned \ {c}
  /\ sampled' = [sampled EXCEPT ![c] = None]
  /\ endpoint' = [endpoint EXCEPT ![c] = None]
  /\ request' = [s \in Servers |->
                   IF request[s] # None /\ request[s].conn = c
                   THEN [request[s] EXCEPT !.conn = None] ELSE request[s]]
  /\ UNCHANGED <<addr, watcher, updated, pending, last, unwatched, faults>>

-----------------------------------------------------------------------------
(* What the watcher of a server, and central for it, do.                   *)
WatcherStep(s) ==
  \/ StartWatcher(s) \/ Notice(s) \/ Skip(s) \/ Unavailable(s) \/ Report(s)
  \/ HandleReport(s) \/ Reported(s) \/ ReportFails(s)

(* What the two ends of a control connection do.                           *)
ControlStep(c) ==
  \/ /\ Mount(c) \/ Refuse(c) \/ CloseRefused(c) \/ RemovePeer(c)
     /\ UNCHANGED endpointVars
  \/ InsertPeer(c)
  \/ Cleanup(c)

EndpointNext ==
  \/ \E s \in Servers :
       \/ WatcherStep(s)
       \/ ReportTimesOut(s)
       \/ \E c \in Conns : DialSampled(s, c)
       \/ \E a \in Addrs : Move(s, a)
  \/ \E c \in Conns :
       \/ ControlStep(c)
       \/ CanFail /\ Break(c) /\ UNCHANGED endpointVars
       \/ Outrun(c) /\ UNCHANGED endpointVars
  \/ \E r \in late : HandleLate(r)

(* Central notices a closed connection (the transport's idle timeout), a   *)
(* storage server that started dials for ever, and its watcher runs.       *)
EndpointSpec ==
  /\ EndpointInit /\ [][EndpointNext]_vars
  /\ WF_vars(\E s \in running, c \in Conns : DialSampled(s, c))
  /\ \A s \in Servers : WF_vars(WatcherStep(s))
  /\ \A c \in Conns : WF_vars(ControlStep(c))

-----------------------------------------------------------------------------
(* The server registered with an address it had for a while only, between  *)
(* two times it had the one the watcher reported before.                   *)
Flapped(s) == sampled[current[s]] # addr[s] /\ last[s] = addr[s]

(* In the end central has the address of every registered server, but for  *)
(* three cases: the watcher takes the address for reported that an earlier *)
(* registration had, central handled a report that timed out at the        *)
(* server, or the only change came between the sample of the first         *)
(* registration and the start of the watch.                                *)
EndpointsKnown ==
  \A s \in Servers :
    <>[]((s \in running /\ Registered(s)) =>
           \/ endpoint[current[s]] = addr[s]
           \/ Flapped(s)
           \/ current[s] \in disowned
           \/ s \in unwatched)
=============================================================================
