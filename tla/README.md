# NetMonitor in TLA+

A verification development of NetMonitor, the passive network monitor in
`src/` (Go): TLA+ modules translated from its code, TLC configurations that
check them on small instances, and theorems that TLAPS checks for every value
of the constants. `PROJECT.json` maps every definition to the lines it models.

## The system

Packets enter through libpcap, go through one bounded channel to a pool of
workers, and leave as changes of two shared structures, which a terminal
interface shows:

    gopacket source -> captureLoop -> packetChan -> workerLoop x n
                                                     | processPacket
                                        +------------+-----------+
                                        v                        v
                                 NetworkState (s.mu)   ConnectionTracker (ct.mu)
                                        ^                        ^
         maintenanceLoop (every 2 s): RecordPcapDrops, EvictStale
         terminal interface (every tick): snapshots; key c: ClearEvents

| Component (source) | State it keeps | Operations | What is hard about it | What makes it correct |
|---|---|---|---|---|
| Connection tracker (`conntrack.go`) | `flows`, at most `maxFlows` | `RecordPacket`, `EvictStale`; read only: `GetActiveFlows`, `ActiveFlowCount` | a full table; equal addresses or ports; flows idle for exactly the timeout; segments out of order | one flow per conversation; the limit is kept; only stale or, in a full table, the oldest flow is discarded; counts and states follow what was observed |
| Capture engine (`capture.go`) | `packetChan`, `stopChan`, the handle, the WaitGroup | `Start`, `captureLoop`, `workerLoop`, `maintenanceLoop`, `Stop` | a full channel; shutdown by key or by signal; who closes what and when | no packet lost in silence or processed twice; no send on a closed channel; `Stop` returns; a quit drains the channel |
| Packet processing (`processPacket`) | none of its own | a sequence of calls on the two structures | the calls of several workers interleave; a host pointer is used after the lock was released | every packet counted once everywhere it should be; the status of a host explained by its indicators |
| Network state (`stats.go`, `types.go`) | hosts, protocol counters, ring of events, counters | `RecordHostPacket`, `AddAnomaly`, `AddEvent`, `IncrementProtocol`, `ClearEvents`, `RecordQueueDrop`, `RecordPcapDrops`, snapshots | status raised by two calls in two orders; overlapping counters; ring boundary | an alert is never lowered; indicators listed once; IDs in order and without gaps |
| Heuristics (`parser.go`) | none | TTL fingerprint and anomalies, identity mismatch, cleartext, DNS and legacy protocols | boundaries between TTL baselines | right whenever the packet came through few enough routers |
| Vendor database (`oui.go`) | `ouiDatabase`, which only the scanner changes | `LookupVendor`, `AddVendor` | the order of the rules; prefixes typed in any notation | as the mismatch rule needs it; what was entered is found |
| Terminal interface (`ui.go`) | log pane, `lastRenderedEventID`, view, table rows | refresh at every tick; keys t, c, q; `Run`, `Stop` | snapshots that are outdated when printed; clearing while events arrive; rows of the last refresh; an update queued when the event loop has ended | each event shown once, in order, without holes; table and pane agree; what happened gets shown |
| Main program (`main.go`) | context, `sigChan`, deferred calls | start, signal goroutine, shutdown | a signal before, during or after the event loop of tview; the order of the deferred calls | everything stops, in order; the log is closed last |
| Configuration, interfaces, logger (`config.go`, `interfaces.go`, `logger.go`) | none while running | `ParseCLI`, `Validate`, `InitLogger`, `FindDefaultInterface`, `IsLocalSubnet`; read only: `GetInterfaceSummaries` | each normalises the same options in its own way; boundaries of address ranges; an interface nobody named | the program runs as it was asked to; what is local is what the comments say |
| Device scanner (second half of `oui.go`) | its copy of the database | `AnalyzeDevice`, `PredictOSByTTL`, the menu | the TTL baselines a second time; typed numbers that no TTL has | the same guess of the system as the monitor, and reports that do not contradict its own |

Oddities met on the way, none of which a run is about:

- `oui.go` and `main.go` both declare `main`, so the package does not build as
  it stands. `Lifecycle` follows the one, `Scanner` the other.
- `DetectTTLAnomaly` takes a TTL of 0 for "no TTL", as its test wants
  (`parser_test.go:86`), though the README flags every `TTL < 4`.
- `InitLogger` takes `WARNING` and white space around a level, `Validate`
  rejects both before it is asked.
- The scanner and the monitor do not pass the same verdicts: the scanner finds
  Microsoft hardware with a TTL of up to 64 suspicious, the monitor does not;
  the monitor finds it suspicious at a TTL above 128, the scanner does not. For
  a TTL of 0 or less the scanner calls the system unknown and speaks of a Linux
  signature all the same (`oui.go:420`).
- A vendor that is added with a prefix without separators (`aabbcc`) or with an
  address in the notation `0003.93aa.bbcc`, which the scanner reads elsewhere
  (`net.ParseMAC`), gets a key that is never looked up, and the menu reports
  success (`oui.go:540`, against line 356).
- Without `-i` the program does not look for the default route, as the
  repository's `README.md:448` has it: it takes the first interface libpcap lists
  with an IPv4 address, be it the bridge of a container runtime
  (`interfaces.go:72`). It knows loopbacks by the names `lo` and `lo0`, `-l` also
  by their addresses, so that of devices without an active address a loopback
  of another name may be taken (`interfaces.go:85`, against the comment in line
  83). That choice is an action of `Lifecycle`; what one could say of it
  would restate its branches, so no property does.

## The modules

| Module | Models | State and actions in terms of the code |
|---|---|---|
| `ConnTrack` | `conntrack.go` | `flows` is `ct.flows`. Every method locks `ct.mu` from beginning to end and reads the clock inside, so a call is one action. `RecordPacket` = `CreateFlow` (with `MakeRoom`: evict the stale, then drop one of the oldest) or `UpdateFlow`; `EvictStale`; `Tick` is the clock. |
| `ConnTrackHistory` | the same, with history | Adds the segments observed on each tracked conversation and when the last one was; conversations are named there by unordered pairs of endpoints, so that `CanonicalizeKey` is checked and not assumed. |
| `CaptureEngine` | `capture.go` except `processPacket` | One action per channel operation, per call others can observe and per exit of each goroutine. `wg` is the set of live goroutines. The source of gopacket is external. |
| `NetworkState` | the methods of `stats.go` that change state, `GetEventsSnapshot` | Each holds `s.mu` throughout: an action each. No behaviour of its own; `PacketAudit` and `EventView` drive it. |
| `PacketAudit` | `processPacket` | A worker has a packet and `todo`, the calls it still has to make for it, in the order of the code. `RecordHostPacket` is two steps (inside the lock, out of it), the identity check reads the host without the lock, every other call is a step. Uses `ConnTrack` through an instance. |
| `EventLog` | - | Abstract: numbered events happen, and the pane grows by runs of later and later ones or is wiped. |
| `EventView` | `updateLogs` and the key c of `ui.go` over the ring | The snapshot, printing each of its events, emptying the ring and emptying the pane are a step each; workers add events between them. Implements `EventLog` (`LogImplemented`). |
| `Screen` | the whole refresh, `updateHostsTable`, `updateFlowsTable`, the keys t and c, `GetHostsSnapshot`, `GetActiveFlows` | `EventView`, then the table, from a second snapshot. `rows` are the rows below the headers, a row what it is about and the status it shows. |
| `Heuristics` | the pure rules of `parser.go`, `LookupVendor` | Operators. What returns `(bool, string)` or a pointer is a set with at most one element. |
| `Interfaces`, `Config` | `interfaces.go`; `config.go` and `logger.go` | Operators: choice of the interface, local ranges; flags, defaults, validation, level and destination of the log. |
| `TTLPath` | a packet on its way past routers | The environment of the TTL rules and of `IsLocalSubnet`: what they say is compared with the truth. |
| `Scanner` | the second half of `oui.go` | A specification of its own. The user adds vendors by typing a prefix or an address in one of many notations; `database` is `ouiDatabase`, from keys to vendors, a key being the text that `AddVendor` makes of what was typed, character by character. Analysing a device changes nothing and is a matter of the properties. |
| `Lifecycle` | `main.go`, `UI.Run`, `UI.Stop`, `refreshLoop`, the key q | Each goroutine has a variable that says where it is; `CaptureEngine` is an instance on variables of this module, and `main` and the signal goroutine take its actions. tview is external. |
| `FlowTable` | - | Abstract: a bounded memory of conversations without direction, which forgets the quiet ones, and of a full memory without any the quietest one. `ConnTrack` implements it (`TableImplemented`, with `ConversationOf` as the mapping of keys). |
| `ConnTrackProofs`, `ConnTrackRefinement` (with the history), `CaptureEngineProofs`, `CapturePacketProofs`, `ScreenProofs`, `PacketAuditProofs`, `ScannerProofs` (`TTLPath` and `Scanner`), `LifecycleProofs` | - | Theorems. |
| `MCConnTrack`, `MCCaptureEngine`, `MCPacketAudit`, `MCRules`, `MCScreen`, `MCLifecycle` | - | Values of constants for TLC. |

Definitions whose comment begins with "Mutant:" are wrong on purpose: each is
a plausible bug in the definition after it, and the property that
`PROJECT.json` names with it fails when it takes that definition's place.

Abstractions of data: addresses are numbers in the order of `bytes.Compare`;
flags are sets; a payload is the class the signature tests put it in; a MAC
address is the kind of vendor it belongs to, and the OUI database has one prefix
of each kind; an IPv4 address its first two bytes, an IPv6 address its class; a
log level the word it spells, with or without white space; an indicator is its kind and the
TTL its text quotes; a DNS packet is the number of its questions and whether
it is a response. What the user types into the scanner is a sequence of
characters, a character the n-th digit of an address, in upper or lower case, or
a separator. A packet has the protocol its IP header names and, beside it, the
transport layer that gopacket decodes: a later fragment has only the former, a
datagram behind an IPv6 extension header another one. A field of a host that is
read without the lock is read whole; that the race of the findings may also tear
a string is not represented. The IPv6 classes are those of the net package, and
no property judges them. Byte volumes, which move together with packet counts, and
message texts are left out.

## The runs

| Run | Bounds | Shows |
|---|---|---|
| `MCConnTrack` | 4 endpoints (10 conversations, those of an address with itself included), 2 slots, timeout 1, clock to 3 | `TypeOK`; `Bounded`; `OneFlowPerConversation`; `RemovalsAreJustified` (a flow goes only when it timed out or, alone, as one idle longest in a full table); `LiveConversationsStay` (a conversation heard of within the timeout goes only alone, from a full table, for a new one, and no other was heard of earlier); `StaleFlowsLeave` (liveness); `TableImplemented` (refinement). With 2 slots for 10 conversations both ways of making room occur, and ties in age too; a second packet makes the older flow the more recent one. Run with the history variables. |
| `MCConnTrackHistory` | the same endpoints, TCP and UDP, 6 combinations of flags, 1 slot, up to 3 packets per flow | the packet count counts both directions; the TCP state is the one that the history of segments, with reordering, settles. Three packets cover a beginning, a decisive segment and one that must not undo it. |
| `MCCaptureEngine` | 2 workers, channel of 2, 4 packets, under `FairSpec` | every packet in exactly one place; no send on a closed channel; `DrainedOnQuit`; a packet is overtaken only while a worker has it; nothing moves after `Stop`; `Stop` terminates; accepted packets are processed. Four packets fill the channel beyond what the workers hold. |
| `MCCaptureEngineHandle` | 1 packet | finding: the handle is closed under its users. |
| `MCRules` | all initial TTLs (64, 128, 255), all path lengths, all kinds of MAC, both sides of every border of the local ranges | initial TTL, hops and system are each estimated right up to 63 routers (126 from 255), and wrong beyond; one-hop and mismatch reports are right in that range; local IPv4 addresses are exactly the private ranges the comments name. |
| | 2 entries for a known, a locally administered and a multicast prefix, in all 54 notations (4, 6 or 12 digits in groups of 2, 4 or 12, three separators, two cases), 2 vendors; 12 typed TTLs at the borders and beyond those of a packet | `EnteredIsFound`: what was typed in pairs of digits is found, in whatever case and with either separator, the last entry for a prefix before the others, and what was typed otherwise has no effect on any address; `ProgramsAgree`. Two entries may overwrite each other, in notations that differ. The two specifications share no variable and are explored one beside the other. |
| `MCScreen` | 2 hosts, ring of 3, snapshots of 2, 5 events, up to 2 of 3 flows listed | the ring holds the latest IDs without a gap; an update leaves no hole; the rows of the table are those its headers announce, none twice, and the table agrees with the pane above it; alerts and events get shown; `LogImplemented` (refinement): nothing is shown twice or out of order. The code's ring of 2000 and snapshots of 200 have the same order: snapshot < ring. Five events overflow the ring and let a snapshot be outdated, also after a clear. |
| `MCLifecycle` | 8 command lines, 4 lists of devices, one interface that opens; 1 worker, channel of 1, 1 packet, 1 signal at any time | it runs as asked; exit in order, the log closed last; a quit ends the program; so does a signal once the interface is up. What depends on the number of workers and packets is `MCCaptureEngine`'s. |
| `MCLifecycleSignal` | 2 signals, no packet | finding: a signal that comes too early is lost. |
| `MCPacketAudit` | 2 workers, 3 of 5 different packets of 2 hosts | status explained by the indicators and never lowered, indicators once, one announcement per host, fingerprint and vendor current, all counters accounted for. The packets are chosen so that one host collects suspicions and alerts by both calls and another learns its MAC address and changes its TTL; one is a fragment without a transport layer, one a datagram behind an IPv6 extension header. |
| `MCPacketAuditRace`, `MCPacketAuditSignature`, `MCPacketAuditDNS` | 2 packets | findings, below. |

Deadlock is not checked where the system may stop: the engine after `Stop`,
the bounded arrival of packets and events, the last router.

### Fairness

- `ConnTrack`, with or without its history: `WF(EvictStale)`. `maintenanceLoop` calls it every two seconds
  for as long as the engine runs (`capture.go:154`). Nothing obliges packets to
  arrive or the clock to go on.
- `CaptureEngine`: weak fairness for each goroutine, which the Go scheduler
  gives; strong fairness for the exits of `captureLoop` and `maintenanceLoop`,
  because a `select` chooses among its ready cases at random, so the stop case
  cannot lose for ever; `Stop`, once called, goes on. Nothing is assumed of the
  source. Nobody is obliged to call `Stop` or to cancel.
- `Screen`: `refreshLoop` queues an update at every tick and the interface
  thread runs it to its end (weak fairness of its steps and of finishing the key
  c); strong fairness of its beginning says that a person does not press a key
  ahead of every single update.
- `Lifecycle`: weak fairness for `main` and for each goroutine, strong fairness
  for the stop cases of the three `select` loops as above. Nothing obliges
  anyone to press a key or to send a signal, or the source to end.

### Findings

1. `Stop` closes the pcap handle before it waits for the goroutines that use
   it (`capture.go:336`): `maintenanceLoop` may call `Stats`, and a
   `captureLoop` that has only just been started `LinkType`, on a closed
   handle. Waiting first would do: both loops leave through
   `stopChan`, and the goroutine of gopacket, which ends only when the handle is
   closed, is not one of those `Stop` waits for.
2. `processPacket` reads `host.Vendor`, `host.VendorCategory` and
   `host.InferredOS` through the pointer `RecordHostPacket` returned, without
   `s.mu`, while another worker may write them (`capture.go:219`, `253`): a data
   race, against the "thread-safe" of `stats.go:10` and `53`.
3. POP3 and IMAP alerts are raised by the port alone, Telnet and FTP ones also
   for an empty payload, against `parser.go:103`.
4. A DNS response is logged as a query by the server that sent it, against
   `parser.go:217`.
5. A signal after `signal.Notify` and before tview has its screen is lost: the
   goroutine cancels the context and stops an application that has nothing to
   stop, the interface comes up over a cancelled engine, and as nobody reads
   `sigChan` any more, later signals do not end the program either
   (`main.go:116`, against `main.go:92` and `114`).

## What is proved

TLAPS checks these for every value of the constants; TLC evaluates the named
assumptions of the modules on their instances. Every invariant and every action
property that a passing run checks is stated by a theorem, and so are the
refinements.

### The tracker

`ConnTrackProofs`, from `ConnTrackAssumption` (addresses and ports are natural
numbers; the limits are integers of any sign):

- `CanonicalizeSymmetric`: both directions of a conversation have one key.
- `TypeCorrect`, `NeverOverCapacity`, `OneFlowEach`, `TimesInOrder`:
  `[]TypeOK`, `[]Bounded`, `[]OneFlowPerConversation`, `[]SeenInOrder`.
- `OnlyJustifiedRemovals`: `RemovalsAreJustified`.

The argument: `Bounded` is not inductive without the finiteness of the table
(in `TypeOK`), from which `MakeRoomLeavesASlot` derives, with the cardinality
theorems, that making room leaves a free slot: a full table of fresh flows
loses exactly one. `OneFlowPerConversation` needs that every key is canonical;
a canonical key whose mirror is canonical is its own mirror
(`CanonicalMirror`). `SeenInOrder` makes idle times natural numbers. `IInv` is
the conjunction, and each action preserves it by a lemma of its own.

`ConnTrackRefinement`, from the same assumption and, for the history, from
`HistoryAssumption` (the protocols are the two that `processPacket` names):

- `ImplementsFlowTable`: `Spec => TableImplemented`.
- `CountsBothDirections`, `HistorySettlesState`, `LiveOnesStay`:
  `[]PacketsOfBothDirections`, `[]StateFollowsHistory`, `LiveConversationsStay`.

Two canonical keys of the same conversation are equal (`SameConversation`), so
keys and remembered conversations are in bijection and equally many; making
room (`MakeRoomForgets`), creating, updating and evicting are each a step of
`FlowTable` or a stutter (`StepRefines`). For the history, `HInv` says that
there is one for exactly the tracked conversations and that each flow shows
its own. The state is defined by the last decisive segment of the whole
history, the code only ever looks at the last state; `NextSegment` shows
that the two agree after one more segment. That a history has a last decisive
segment at all is part of the invariant (`HasLast`), as it cannot be proved by
induction over the history.

### The engine

`CaptureEngineProofs`, from `CaptureAssumption` (a finite, non-empty set of
workers, a positive capacity):

- `TypeCorrect`: `[]TypeOK`, so that `packetChan` never exceeds its capacity.
- `SendsOnOpenChannelOnly`: `[]NoSendOnClosed`.
- `StopIsFinal`: `QuietAfterStop`.

Here the strengthening is `Lifecycle` (a part of `IInv`, not the module):
nothing is alive before `Start` and after `Stop`, the channel is open before
`Start` and while `captureLoop` lives, and `captureLoop` holds a packet exactly
when it is about to offer it.

`CapturePacketProofs`, from the same assumption:

- `NoneLostNoneTwice`, `OvertakenInWorkersOnly`, `QuitDrains`:
  `[]EveryPacketInOnePlace`, `[]ReorderingIsBounded`, `[]DrainedOnQuit`.

The places of a packet are disjoint because of their order (`InOrder`): until
the workers have them, packets keep the order of their arrival, so that all in
the source are later than the one offered, that one later than all in the queue,
and those later than all that left it. Order makes the two sequences injective
and bounds overtaking as well. `NothingLeftBehind` says that no one leaves with
a packet and that a worker that left, uncancelled, left an empty and closed
channel; with at least one worker, a stopped engine has an empty queue.

### The workers inside `processPacket`

`PacketAuditProofs`, from `PacketAuditAssumption` (addresses are natural
numbers, the workers finitely many, the packets of the kinds that gopacket
decodes, the limit of flows an integer of any sign) and
`NetworkStateAssumption` (so is the size of the ring):

- `FingerprintsAreCurrent`, `StatusesAreExplained`, `IndicatorsAndHostsOnce`,
  `PacketsAreAudited`, `AnomaliesAreAccountedFor`: the invariants of
  `MCPacketAudit`.
- `StatusesOnlyRise`: `StatusNeverLowered`.

Most of the properties speak of states between packets, or leave out what a
worker still has to do, so none of them is inductive: the invariant has to say
what the shared state owes to each worker at each point of `processPacket`. The
calls left to a worker are seen by their `Stage`, their place in the code.
`Legal` says that they are in that order and that the two calls of a finding
follow each other; taking a packet, evaluating the identity rule and making the
next call keep it. On top of it:

- `StatusReasoned`: a status has an indicator of its rank, or a worker is about
  to list one, since cleartext and legacy findings are logged, and so raise the
  status, before they are listed.
- `Announced`: each known host has one announcement in the ring, or one worker
  that is about to make it, never both.
- `Balance(count, S, stage)`: a counter and the workers that owe it a call add up
  to the packets received. Sums over hosts and flows are cardinalities of sets of
  units, so that the cardinality theorems apply and no recursion is needed.
- `AnomaliesCounted`: some workers are `Ahead` (listed and counted, not yet
  logged), others `Behind` (the other way round), by one each.

`OneCallMade`, `IdentityGoes` and `HostGoes` reduce the actions to what they
change of the stages left to the worker; each part of the invariant has its own
lemmas about these and about what the calls change.

### The screen

`ScreenProofs`, from `EventViewAssumption`, `NetworkStateAssumption` and
`ScreenAssumption` (finitely many keys of flows, a positive limit of rows):

- `RingIsTheLatest`: `[]RingHoldsTheLatest`.
- `UpdatesLeaveNoHole`, `NothingShownTwice`, `ScreenShowsAllOnce`:
  `[]PaneShowsTheLatest`, and that the pane is in the order of the IDs.
- `ScreenImplementsView`, `ScreenImplementsLog`: the screen takes only the steps
  of `EventView` on the log, and `EventView` those of `EventLog`.
- `TableIsOfOneKind`, `TableConfirmsAlerts`: `[]RowsBelongTogether`,
  `[]PaneAndTableAgree`.

The first event that may still be shown, `NextUnread`, must never go back. While
a snapshot is printed it is the next event of the snapshot or the one after the
last printed, whichever is later, otherwise the same for the ring
(`UnreadSoFar`). That needs consecutive snapshots (`SnapshotInOrder`) and, for
the reset of `lastRenderedEventID`, that nothing printed is in the ring while
the key c is handled (`NothingPrintedLeft`): the ring was emptied before, and
what comes in is newer. For the holes, `NoHole` says the same of an update under
way as of a finished one, but back from the end of its snapshot; what is older
than the ring's oldest event may be missing, and the next snapshot ends no
earlier than the last. That the pane is in order is proved of the steps of the
abstract log (`LogShowsOnce`). Table and pane agree although the table is read later
because an alert in the ring, in the snapshot or on the pane marks its host
for ever (`AlertsKnown`).

### The rules, and the scanner beside them

`ScannerProofs`, from `TTLPathAssumption` (an IPv4 address has two bytes that
count, an IPv6 one its class) and `ScannerAssumption` (vendors are added for
prefixes, and a typed TTL is an integer of any size and sign):

- `EstimatesAreRight`, `FindingsAreTrue`, `LocalRangesAreExact`, of `TTLPath`:
  `[]EstimateRightWhenClose`, `[]FindingsTrueWhenClose`, `[]LocalIsPrivate`.
- `EnteredVendorsAreFound`, `VerdictsOfBothAgree`, of `Scanner`:
  `[]EnteredIsFound`, `[]ProgramsAgree`, after any number of additions.

The first three need only what a path does to a TTL (`PathOK`). `DatabaseOK`
relates the scanner's database to the history of what was entered: under the
key of an address is the vendor entered last in pairs of digits for its
prefix, or else the one the program began with. It rests on the conversion:
`FormattedIsKey` shows, from the characters that `AddVendor` makes of a text
(`FormattedCharacters`), that this is a key that `LookupVendor` computes exactly
when the text was written in pairs of digits with colons or dashes and has a
whole prefix, and then the key of that prefix; the keys of two prefixes differ
(`KeysDiffer`). So no other notation disturbs the entry of any address, the
shorter and the undivided ones included.

### The program

`LifecycleProofs`, from `LifecycleAssumption` (that of the engine; `-max-flows`
takes an integer; every device has a name):

- `ProgramImplementsEngine`: `Spec => Engine!Spec`. Whatever `main`, the signal
  goroutine and the interface do to it, the engine in the program is a
  `CaptureEngine`.
- `AskedAndRun`, `ExitsCleanly`: `[]RunsAsAsked`, `[]CleanExit`.

The theorems of `CapturePacketProofs` are used through an instance and hold in
the program without being proved again; the lemma `EngineAssumption` discharges
their assumption. `CleanExit` says that no packet was lost unless a signal cut
the work short, which is true only if the context is otherwise cancelled late. `CancelledLate` says who may cancel it and
when: the signal goroutine after a signal, otherwise the last but one of the
deferred calls, which runs when the engine has stopped and nothing is left in
it (`Emptied`, which then stays so). `MainDrivesEngine` ties the places of
`main` to the states of the engine, `Configured` says that between `ParseCLI`
and the engine only the name of the interface changes, and `Logged` that the
log is closed last.

### Only model-checked

Liveness, as fairness is outside what TLAPS handles: `StaleFlowsLeave`,
`StopTerminates`, `AcceptedIsProcessed`, `AlertsGetShown`, `EventsGetShown`,
`QuitEnds` and `SignalEndsInterface`. The findings are counterexamples of TLC.

## What is not modelled

- Byte decoding of packets (gopacket) and of payloads (signature tests).
- `NetworkState`: `GetStats` (read only; it takes the tracker's lock while it
  holds `s.mu`, and no one takes them in the other order), `RecordPcapDrops`
  (a counter that is overwritten at each poll), `GetTopTalkers` (no caller), and
  the growth of `hosts` and `ipPacketCounts`, which nothing bounds.
- The interface's banner, columns, focus and help dialog (which takes q for
  itself while it is open).
- `CheckRawPrivileges` and everything else that only prints; where the log goes
  when its file cannot be opened is modelled, what the terminal then looks like
  is not. The exit after an error of `ui.Run` runs no deferred call and leaves
  the rest to the kernel.

## Plan

Done: all modules above, the two abstract specifications with their
refinements proved, the refinement of the engine by the program, and every
invariant and action property of the runs.

Left, of the model: the counters of lost packets with their two callers; the
help dialog and the focus.

Left, of the proofs: what `FlowTable` promises in turn, reached through the
refinement as the order of the pane is from `EventLog`; that `Screen` and
`PacketAudit` add events to one ring in the same way, so that what is proved of
the pane holds of what the workers report; the safety half of the liveness
arguments, that what has to happen is not undone or overtaken.
