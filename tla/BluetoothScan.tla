--------------------------- MODULE BluetoothScan ---------------------------
(* What a Bluetooth scan makes of the objects BlueZ keeps of the devices in *)
(* range (capture/bluetooth/scan.rs, the loop of run_discovery, and         *)
(* props.rs).  BlueZ announces an object once in full and then the          *)
(* properties that change; the two kinds of signal arrive on two streams,   *)
(* and tokio::select! takes from either.                                    *)
EXTENDS Integers, Sequences

CONSTANTS
    Paths,         \* device objects of the bus, of every adapter
    Address(_),    \* the address of a device: two adapters may know one
    Names,         \* values of the properties other than address and RSSI
    Levels,        \* RSSI values
    None,          \* a property that is absent
    EmitThrottle,  \* EMIT_THROTTLE, in ticks
    MaxSignals     \* bound: things that happen on the bus

ThrottleAssumption == EmitThrottle \in Nat

KnownAddresses == {Address(p) : p \in Paths}

VARIABLES
    known,     \* objects BlueZ has now
    device,    \* their properties
    stage,     \* how far run_discovery is
    added,     \* the InterfacesAdded stream
    changed,   \* the PropertiesChanged stream
    cache,     \* merged snapshot of each object
    lastEmit,  \* age and snapshot of the last emission of each address
    answer,    \* what is left of the answer of get_managed_objects
    open,      \* the receiver is there
    credit,    \* history, by address: announcements and changes of more than RSSI,
               \* less the loop's emissions within the throttle of the one before
    events

bus == <<known, device, events>>
vars == <<known, device, stage, added, changed, cache, lastEmit, answer, open, credit, events>>

\* DeviceProps::default, also a signal that carries nothing.
Default == [addressed |-> FALSE, name |-> None, rssi |-> None]
Never == [ever |-> FALSE, age |-> EmitThrottle, props |-> Default]

Full(n, r) == [addressed |-> TRUE, name |-> n, rssi |-> r]

Init ==
    /\ known \in SUBSET Paths
    /\ device \in [Paths -> {Full(n, None) : n \in Names \union {None}}]
    /\ stage = "seed"
    /\ added = <<>> /\ changed = <<>>
    /\ cache = [p \in Paths |-> Default]
    /\ lastEmit = [a \in KnownAddresses |-> Never]
    /\ answer = {} /\ open = TRUE
    /\ credit = [a \in KnownAddresses |-> 0]
    /\ events = 0

-----------------------------------------------------------------------------
(* The bus.  A signal reaches the streams that are subscribed. *)

Listening(stream) ==
    IF stream = "added" THEN stage \in {"subscribe changed", "loop"} ELSE stage = "loop"

Event == events < MaxSignals /\ events' = events + 1

Counted(p) == credit' = [credit EXCEPT ![Address(p)] = @ + 1]

InterfacesAdded(p) ==
    /\ p \notin known /\ Event
    /\ \E n \in Names \union {None}, r \in Levels :
          /\ device' = [device EXCEPT ![p] = Full(n, r)]
          /\ added' = IF Listening("added")
                      THEN Append(added, [path |-> p, props |-> Full(n, r)]) ELSE added
    /\ known' = known \union {p}
    /\ Counted(p)
    /\ UNCHANGED <<stage, changed, cache, lastEmit, answer, open>>

\* The scan does not listen to this one.
InterfacesRemoved(p) ==
    /\ p \in known /\ Event
    /\ known' = known \ {p}
    /\ UNCHANGED <<device, stage, added, changed, cache, lastEmit, answer, open, credit>>

\* New values, or an RSSI that is invalidated: the signal has no value for it.
Updated(dp, m) ==
    Full(IF m.name = None THEN dp.name ELSE m.name,
         IF m.name = None THEN m.rssi ELSE IF m.rssi = None THEN dp.rssi ELSE m.rssi)

PropertiesChanged(p) ==
    /\ p \in known /\ Event
    /\ \E m \in [addressed : {FALSE}, name : Names \union {None},
                 rssi : Levels \union {None}] :
          /\ device' = [device EXCEPT ![p] = Updated(@, m)]
          /\ changed' = IF Listening("changed")
                        THEN Append(changed, [path |-> p, props |-> m]) ELSE changed
          /\ IF m.name = None THEN UNCHANGED credit ELSE Counted(p)
    /\ UNCHANGED <<known, stage, added, cache, lastEmit, answer, open>>

-----------------------------------------------------------------------------
(* The scan. *)

\* merge_prop, for each property a signal carries.
MergeProp(dp, m) ==
    [addressed |-> dp.addressed \/ m.addressed,
     name |-> IF m.name = None THEN dp.name ELSE m.name,
     rssi |-> IF m.rssi = None THEN dp.rssi ELSE m.rssi]

NonRssiChanged(old, new) == [old EXCEPT !.rssi = None] /= [new EXCEPT !.rssi = None]

Throttled(last, dp) == last.age < EmitThrottle /\ ~NonRssiChanged(last.props, dp)

\* emit_if_due: nothing without an address, nothing while throttled; a receiver
\* that is gone ends the scan.
EmitIfDue(a, dp, next) ==
    IF ~dp.addressed \/ Throttled(lastEmit[a], dp)
    THEN stage' = next /\ UNCHANGED <<lastEmit, credit>>
    ELSE /\ lastEmit' = [lastEmit EXCEPT ![a] = [ever |-> TRUE, age |-> 0, props |-> dp]]
         /\ credit' = IF stage = "loop" /\ lastEmit[a].age < EmitThrottle
                      THEN [credit EXCEPT ![a] = @ - 1] ELSE credit
         /\ stage' = IF open THEN next ELSE "gone"

Receive(signal, next) ==
    /\ cache' = [cache EXCEPT ![signal.path] = MergeProp(@, signal.props)]
    /\ EmitIfDue(Address(signal.path), cache'[signal.path], next)

\* get_managed_objects, which may fail: the objects BlueZ has at that moment.
GetManagedObjects ==
    /\ stage = "seed"
    /\ \/ /\ answer' = {[path |-> p, props |-> device[p]] : p \in known}
          /\ stage' = IF known = {} THEN "subscribe added" ELSE "seeding"
       \/ stage' = "subscribe added" /\ UNCHANGED answer
    /\ UNCHANGED <<bus, added, changed, cache, lastEmit, open, credit>>

\* They are cached and emitted one by one, in the order of a hash map.
Seed ==
    /\ stage = "seeding"
    /\ \E s \in answer :
          /\ answer' = answer \ {s}
          /\ Receive(s, IF answer = {s} THEN "subscribe added" ELSE "seeding")
    /\ UNCHANGED <<bus, added, changed, open>>

Subscribe ==
    /\ \/ stage = "subscribe added" /\ stage' = "subscribe changed"
       \/ stage = "subscribe changed" /\ stage' = "loop"
    /\ UNCHANGED <<bus, added, changed, cache, lastEmit, answer, open, credit>>

TakeAdded ==
    /\ stage = "loop" /\ added /= <<>>
    /\ Receive(Head(added), "loop") /\ added' = Tail(added)
    /\ UNCHANGED <<bus, changed, answer, open>>

TakeChanged ==
    /\ stage = "loop" /\ changed /= <<>>
    /\ Receive(Head(changed), "loop") /\ changed' = Tail(changed)
    /\ UNCHANGED <<bus, added, answer, open>>

ReceiverGone ==
    /\ open /\ open' = FALSE
    /\ UNCHANGED <<bus, stage, added, changed, cache, lastEmit, answer, credit>>

\* An age beyond the throttle makes no difference.
Tick ==
    /\ lastEmit' = [a \in KnownAddresses |-> [lastEmit[a] EXCEPT !.age =
                       IF @ < EmitThrottle THEN @ + 1 ELSE @]]
    /\ UNCHANGED <<bus, stage, added, changed, cache, answer, open, credit>>

Next ==
    \/ \E p \in Paths : InterfacesAdded(p) \/ InterfacesRemoved(p) \/ PropertiesChanged(p)
    \/ GetManagedObjects \/ Seed \/ Subscribe \/ TakeAdded \/ TakeChanged \/ ReceiverGone \/ Tick

Spec == Init /\ [][Next]_vars

-----------------------------------------------------------------------------
(* Properties. *)

\* The throttle withholds nothing but RSSI: what was last emitted of a device is, but for
\* that, the snapshot of one of its objects (emit_if_due, non_rssi_changed).
FieldsAreTold ==
    \A p \in Paths : cache[p].addressed =>
        /\ lastEmit[Address(p)].ever
        /\ \E q \in Paths : /\ Address(q) = Address(p) /\ cache[q].addressed
                            /\ lastEmit[Address(p)].props.name = cache[q].name

OfOneAdapter(a) == \A p, q \in Paths : Address(p) = a /\ Address(q) = a => p = q

\* Every emission of the loop within the throttle of the one before answers a signal that
\* carried more than RSSI: chatter alone never gets through ("a device re-emits at
\* most once per EMIT_THROTTLE unless a meaningful field changed", scan.rs:11-13), as long as
\* one adapter knows the device.
EarlyAnswersAChange == \A a \in KnownAddresses : OfOneAdapter(a) => credit[a] >= 0

=============================================================================
