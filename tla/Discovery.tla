----------------------------- MODULE Discovery -----------------------------
(***************************************************************************)
(* The discovery agents of a nanoprobe (clientlib/discovery.c and its      *)
(* subclasses jsondiscovery.c, switchdiscovery.c and arpdiscovery.c): what *)
(* the CMA asks for is registered by name, run by timers, child processes  *)
(* and captured packets, and reported to the CMA when it has changed.      *)
(*                                                                         *)
(* An object is freed when its reference count drops to zero.  What the    *)
(* code does with a freed object is undefined and is not modelled; two     *)
(* things that lead there are: an agent that prints nothing, and the timer *)
(* of an ArpDiscovery that was freed.                                      *)
(***************************************************************************)
EXTENDS Naturals, Sequences

CONSTANTS
    Instance,   \* names of discoveries
    Repeats,    \* the JSON ones that are asked for with an interval
    Kind,       \* [Instance -> {"JSON", "SWITCH", "ARP"}]
    Value,      \* what there is to discover
    Spawns,     \* bound: outcomes of g_spawn_async_with_pipes, TRUE: it succeeds
    MaxRequest, \* bound: requests
    MaxChange   \* bound: changes of what there is to discover

Nothing == "nothing"

Accepted == "accepted"

ASSUME DiscoveryAssumption ==
    /\ Kind \in [Instance -> {"JSON", "SWITCH", "ARP"}]
    /\ Repeats \subseteq {n \in Instance : Kind[n] = "JSON"}
    /\ Spawns \subseteq BOOLEAN /\ Spawns # {}
    /\ Nothing \notin Value /\ Accepted \notin Value
    /\ MaxRequest \in Nat /\ MaxChange \in Nat

VARIABLES
    objects, \* the Discovery objects, in the order they were made
    table,   \* _discovery_timers: the registered object of a name or 0; <<>>: destroyed
    config,  \* what the configuration holds under a discovery's name
    cma,     \* is the address CONFIGNAME_CMADISCOVER known?
    told,    \* what the reliable protocol last took for the CMA under a name
    refused, \* what it was given last under a name, if it refused that, or Accepted
    world,   \* what an agent or a packet says at present
    changes  \* how often that has changed

vars == <<objects, table, config, cma, told, refused, world, changes>>

ShuttingDown == table = <<>>  \* nano_shutting_down

-----------------------------------------------------------------------------
(* Reference counts.  A heap has the objects and the table.                *)

\* _discovery_finalize and those of the subclasses.  The timer goes if the object
\* knows its id.
Freed(heap, i) ==
    [heap EXCEPT !.obj[i].refs = 0, !.obj[i].timer = @ /\ ~heap.obj[i].owned]

\* g_hash_table_remove with _discovery_ghash_destructor
Removed(heap, n) ==
    IF heap.table = <<>> \/ heap.table[n] = 0 THEN heap
    ELSE LET i    == heap.table[n]
             rest == [heap EXCEPT !.table[n] = 0]
         IN  IF rest.obj[i].refs = 1 THEN Freed(rest, i) ELSE [rest EXCEPT !.obj[i].refs = @ - 1]

\* A finalized object removes what is registered by its name, itself or another.
Unref(heap, i) ==
    IF heap.obj[i].refs = 1 THEN Removed(Freed(heap, i), heap.obj[i].name)
    ELSE [heap EXCEPT !.obj[i].refs = @ - 1]

-----------------------------------------------------------------------------
(* What an object does.                                                    *)

\* Mutant: the object does not stay for the sake of its child.
SpawnedUnheld(o) == [o EXCEPT !.child = "running"]

\* childprocess_new.  A failure is told to nobody, and a timer that ran it ends.
Spawned(o) == [o EXCEPT !.child = "running", !.refs = @ + 1]

\* The discover member function; FALSE from it ends a timer.
Discover(o, spawns) ==
    IF Kind[o.name] # "JSON" \/ o.child # Nothing THEN o
    ELSE IF spawns THEN Spawned(o) ELSE [o EXCEPT !.timer = FALSE]

\* g_source_pcap_new may fail, and the object lives on without it.
Captures(n) == IF Kind[n] = "JSON" THEN {FALSE} ELSE BOOLEAN

NewDiscovery(n) ==
    [name |-> n, refs |-> 1, captures |-> FALSE, timer |-> FALSE, owned |-> FALSE,
     child |-> Nothing, cache |-> Nothing, sentyet |-> FALSE]

\* switchdiscovery_new
NewSwitch(n, captures) == [NewDiscovery(n) EXCEPT !.captures = captures]

\* arpdiscovery_new, with the timer of its first report
NewArp(n, captures) ==
    [NewDiscovery(n) EXCEPT !.captures = captures, !.timer = TRUE, !.owned = TRUE, !.cache = "empty"]

NewObject(n, captures) ==
    CASE Kind[n] = "JSON"   -> NewDiscovery(n)
      [] Kind[n] = "SWITCH" -> NewSwitch(n, captures)
      [] Kind[n] = "ARP"    -> NewArp(n, captures)

\* discovery_register discovers before it sets the timer; the object that had the
\* name loses its registration once the new one has it.
Register(n, o) ==
    LET i    == Len(objects) + 1
        new  == [o EXCEPT !.refs = @ + 1, !.timer = @ \/ n \in Repeats, !.owned = @ \/ n \in Repeats]
        heap == [obj |-> Append(objects, new), table |-> [table EXCEPT ![n] = i]]
    IN  IF table[n] = 0 THEN heap ELSE Unref(heap, table[n])

\* Mutant: what is cached is taken for sent.
IsCachedUnsent(o, v) == config[o.name] = v

IsCached(o, v) == o.sentyet /\ config[o.name] = v

\* sendareliablefs refuses a FrameSet when the queue is full, there is no connection or
\* it is being shut down.  Nobody looks at what it returns.
SendReliable(n, v, accepted) ==
    /\ told' = IF accepted THEN [told EXCEPT ![n] = v] ELSE told
    /\ refused' = [refused EXCEPT ![n] = IF accepted THEN Accepted ELSE v]

\* _discovery_sendjson
SendJson(o, v, accepted) ==
    IF IsCached(o, v) THEN UNCHANGED <<config, told, refused>>
    ELSE /\ config' = [config EXCEPT ![o.name] = v]
         /\ IF cma THEN SendReliable(o.name, v, accepted) ELSE UNCHANGED <<told, refused>>

\* Mutant: the value counts as sent before it is known where to send it.
SentYetUnsent(o, v) == [o EXCEPT !.sentyet = TRUE]

\* Set before the value is sent, and whether or not it is accepted.
SentYet(o, v) == [o EXCEPT !.sentyet = @ \/ (cma /\ ~IsCached(o, v))]

-----------------------------------------------------------------------------
(* Actions.                                                                *)

Alive(i) == objects[i].refs > 0

\* nanoobey_startdiscover, nano_schedule_discovery; also what nano_startupidle starts
StartDiscover(n, spawns, captures) ==
    /\ ~ShuttingDown /\ Len(objects) < MaxRequest
    /\ LET heap == Register(n, Discover(NewObject(n, captures), spawns))
           done == Unref(heap, Len(heap.obj))
       IN  objects' = done.obj /\ table' = done.table
    /\ UNCHANGED <<config, cma, told, refused, world, changes>>

\* _discovery_rediscover
Rediscover(i, spawns) ==
    /\ Alive(i) /\ objects[i].timer /\ Kind[objects[i].name] = "JSON"
    /\ objects' = [objects EXCEPT ![i] = Discover(@, spawns)]
    /\ UNCHANGED <<table, config, cma, told, refused, world, changes>>

\* The agent looks, and what it prints is read.
AgentPrints(i) ==
    /\ objects[i].child = "running"
    /\ objects' = [objects EXCEPT ![i].child = world[objects[i].name]]
    /\ UNCHANGED <<table, config, cma, told, refused, world, changes>>

\* _childprocess_childexit and _jsondiscovery_childwatch; zero: EXITED_ZERO
ChildExits(i, zero, accepted) ==
    /\ objects[i].child # Nothing /\ (zero => objects[i].child \in Value)
    /\ LET o    == objects[i]
           sent == IF zero THEN SentYet(o, o.child) ELSE o
           done == Unref([obj |-> [objects EXCEPT ![i] = [sent EXCEPT !.child = Nothing]],
                          table |-> table], i)
       IN  /\ objects' = done.obj /\ table' = done.table
           /\ IF zero THEN SendJson(o, o.child, accepted) ELSE UNCHANGED <<config, told, refused>>
    /\ UNCHANGED <<cma, world, changes>>

\* g_source_pcap_dispatch: an error ends the capture.
CaptureFails(i) ==
    /\ Alive(i) /\ objects[i].captures
    /\ objects' = [objects EXCEPT ![i].captures = FALSE]
    /\ UNCHANGED <<table, config, cma, told, refused, world, changes>>

\* _switchdiscovery_cache_info
IsSwitchNews(o) == o.cache # world[o.name]

\* _switchdiscovery_dispatch: a packet of the switch this system is connected to.  It
\* is remembered once there is an address to send it to.
HearSwitch(i, accepted) ==
    LET o == objects[i] IN
    /\ Alive(i) /\ Kind[o.name] = "SWITCH" /\ o.captures
    /\ cma /\ IsSwitchNews(o)
    /\ objects' = [objects EXCEPT ![i].cache = world[o.name]]
    /\ SendReliable(o.name, world[o.name], accepted)
    /\ UNCHANGED <<table, config, cma, world, changes>>

\* _arpdiscovery_dispatch: an ARP packet goes into the map.
HearArp(i) ==
    LET o == objects[i] IN
    /\ Alive(i) /\ Kind[o.name] = "ARP" /\ o.captures /\ o.cache # world[o.name]
    /\ objects' = [objects EXCEPT ![i].cache = world[o.name]]
    /\ UNCHANGED <<table, config, cma, told, refused, world, changes>>

\* _arpdiscovery_first_discovery, then _arpdiscovery_gsourcefunc again and again.  The
\* first removes itself and sets another timer; GLib tells of its end when it has
\* returned, and _arpdiscovery_notify_function forgets the id of the second.
SendArpCache(i, accepted) ==
    LET o == objects[i] IN
    /\ Alive(i) /\ Kind[o.name] = "ARP" /\ o.timer
    /\ objects' = [objects EXCEPT ![i] = [SentYet(o, o.cache) EXCEPT !.owned = FALSE]]
    /\ SendJson(o, o.cache, accepted)
    /\ UNCHANGED <<table, cma, world, changes>>

\* nanoobey_setconfig
SetConfig ==
    /\ ~cma /\ cma' = TRUE
    /\ UNCHANGED <<objects, table, config, told, refused, world, changes>>

\* discovery_unregister_all, as nano_initiate_shutdown calls it
UnregisterAll ==
    /\ ~ShuttingDown /\ table' = <<>>
    /\ LET Dropped(i) == IF table[objects[i].name] # i THEN objects[i]
                         ELSE Unref([obj |-> objects, table |-> <<>>], i).obj[i]
       IN  objects' = [i \in DOMAIN objects |-> Dropped(i)]
    /\ UNCHANGED <<config, cma, told, refused, world, changes>>

WorldChanges(n) ==
    /\ changes < MaxChange /\ changes' = changes + 1
    /\ \E v \in Value \ {world[n]} : world' = [world EXCEPT ![n] = v]
    /\ UNCHANGED <<objects, table, config, cma, told, refused>>

Init ==
    /\ objects = <<>> /\ table = [n \in Instance |-> 0]
    /\ config = [n \in Instance |-> Nothing] /\ told = [n \in Instance |-> Nothing]
    /\ refused = [n \in Instance |-> Accepted]
    /\ cma = FALSE /\ changes = 0
    /\ \E v \in Value : world = [n \in Instance |-> v]

Next ==
    \/ \E n \in Instance : \E spawns \in Spawns, captures \in Captures(n) : StartDiscover(n, spawns, captures)
    \/ \E n \in Instance : WorldChanges(n)
    \/ \E i \in DOMAIN objects :
           \/ \E spawns \in Spawns : Rediscover(i, spawns)
           \/ AgentPrints(i) \/ CaptureFails(i) \/ HearArp(i)
           \/ \E accepted \in BOOLEAN :
                  \/ \E zero \in BOOLEAN : ChildExits(i, zero, accepted)
                  \/ HearSwitch(i, accepted) \/ SendArpCache(i, accepted)
    \/ SetConfig \/ UnregisterAll

\* The main loop serves every timer, child and capture.  An agent ends, and does not
\* fail for ever; switches announce themselves and systems ask for addresses.  That a
\* FrameSet is ever accepted is not assumed.
Fairness ==
    /\ \A i \in 1..MaxRequest :
           /\ WF_vars(i \in DOMAIN objects /\ \E spawns \in Spawns : Rediscover(i, spawns))
           /\ SF_vars(i \in DOMAIN objects /\ AgentPrints(i))
           /\ WF_vars(i \in DOMAIN objects /\ \E zero, accepted \in BOOLEAN : ChildExits(i, zero, accepted))
           /\ SF_vars(i \in DOMAIN objects /\ \E accepted \in BOOLEAN : ChildExits(i, TRUE, accepted))
           /\ WF_vars(i \in DOMAIN objects /\ \E accepted \in BOOLEAN : HearSwitch(i, accepted))
           /\ WF_vars(i \in DOMAIN objects /\ HearArp(i))
           /\ WF_vars(i \in DOMAIN objects /\ \E accepted \in BOOLEAN : SendArpCache(i, accepted))

Spec == Init /\ [][Next]_vars /\ Fairness

-----------------------------------------------------------------------------
(* Properties.                                                             *)

Registered(i) == ~ShuttingDown /\ table[objects[i].name] = i

\* An object lives as long as it is registered or its agent runs, whatever is asked
\* for again, ends or is unregistered in between, and the timer the base class set
\* does not outlive it.
LivesWhileNeeded ==
    \A i \in DOMAIN objects :
        LET o == objects[i] IN
        /\ Alive(i) <=> Registered(i) \/ o.child # Nothing
        /\ o.timer /\ Kind[o.name] = "JSON" => Alive(i)

\* What was sent last under a name; a FrameSet that was refused is not repeated.
LastSent == [n \in Instance |-> IF refused[n] = Accepted THEN told[n] ELSE refused[n]]

\* What an object holds for sent is what was sent last under its name: the CMA has been
\* told that, and not something older, unless the protocol refused it, although objects
\* of one name share the cache and old ones outlive their registration.
CachedIsLastSent ==
    \A i \in DOMAIN objects :
        LET o == objects[i] IN
        Alive(i) =>
            /\ o.sentyet => config[o.name] = LastSent[o.name]
            /\ Kind[o.name] = "SWITCH" /\ o.cache # Nothing => o.cache = LastSent[o.name]

\* Will the registered object of this name report again?
Scheduled(n) ==
    /\ ~ShuttingDown /\ table[n] # 0
    /\ Kind[n] = "JSON" => objects[table[n]].timer
    /\ Kind[n] # "JSON" => objects[table[n]].captures

\* While a discovery stays scheduled, what it finds is sent once the address of the
\* CMA is known: the CMA is told, or the protocol refused that very value.
FindingsReachCma ==
    \A n \in Instance, v \in Value :
        <>[](world[n] = v /\ Scheduled(n) /\ cma) => <>[](LastSent[n] = v)

\* A discovery asked for with an interval "will be 're-discovered' according to the
\* number of seconds" (discovery_register) until the nanoprobe shuts down.
StaysScheduled ==
    \A i \in DOMAIN objects : objects[i].name \in Repeats /\ ~ShuttingDown => Scheduled(objects[i].name)
=============================================================================
