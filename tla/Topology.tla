------------------------------ MODULE Topology ------------------------------
(***************************************************************************)
(* Where things are: the segments, stations, devices and points of         *)
(* internal/network with their two indexes, and the orders internal/       *)
(* dispatch files under the segment of a device.  Orders are filed once,   *)
(* while an upsert may move a device, or a segment, at any time.           *)
(*                                                                         *)
(* A Put and the indexes it updates are under one lock.  The server        *)
(* removes nothing (DeleteSegment has no caller), so what an upsert looks  *)
(* up first cannot go away and belongs to the step of its Put.             *)
(*                                                                         *)
(* The names leave those of module Permit free: a module can extend both.  *)
(***************************************************************************)
EXTENDS OrderStore, Integers, Sequences

CONSTANTS
  Compressors,  \* the devices that need a station
  Points,       \* the measurement points
  Stations,     \* the ids that ends of segments name
  StationInputs,\* the stations clients create; an end need not be one
  Creators,     \* goroutines of the HTTP server: the orders being created
  Readers,      \* and those listing the devices of a segment
  EndsInputs,   \* the ends UpsertSegment may be given
  Settled       \* what clients never move: devices, points and segments (the
                \* code lets an upsert move any)

ASSUME SettledOK == Settled \subseteq Devices \cup Points \cup Segments
ASSUME CompressorsOK == Compressors \subseteq Devices
ASSUME InputsOK ==
  StationInputs \subseteq Stations /\ EndsInputs \subseteq [from : Stations, to : Stations]
ASSUME NoStationOK == None \notin Stations

VARIABLES
  stations,         \* the stations stored
  segments,         \* segments[s]: its ends
  placed,           \* placed[x]: the segment of device or point x
  segmentDevices,   \* the index of placed
  stationSegments,  \* the index of segments
  filing,              \* filing[h]: an order Create is about to put
  answer            \* answer[r]: the answer ListSegmentDevices is putting together

netVars == <<stations, segments, placed, segmentDevices, stationSegments>>
topologyVars == <<orders, netVars, filing, answer>>

-----------------------------------------------------------------------------
Ends == [from : Stations, to : Stations]
NoEnds == [from |-> None, to |-> None]

NoRequest == [device |-> None, segment |-> None]

Items == Devices \cup Points

(* The lists of a segment, read under a lock each, in the order in which   *)
(* ListSegmentDevices asks for them.                                       *)
Lists == <<Compressors, Devices \ Compressors, Points>>

(* An answer: the lists it has, what they held, and (not in the code) what *)
(* was on the segment when the request came.                               *)
NoAnswer == [segment |-> None, read |-> 0, held |-> {}, before |-> {}]

Exists(s) == segments[s] # NoEnds

(* What the clients' discipline allows: a settled thing stays put. *)
MayPut(x, old, new, none) == x \in Settled => old \in {none, new}

TopologyInit ==
  /\ OrderInit
  /\ stations = {}
  /\ segments = [s \in Segments |-> NoEnds]
  /\ placed = [x \in Items |-> None]
  /\ segmentDevices = [s \in Segments |-> {}]
  /\ stationSegments = [st \in Stations |-> {}]
  /\ filing = [h \in Creators |-> NoRequest]
  /\ answer = [r \in Readers |-> NoAnswer]

-----------------------------------------------------------------------------
UpsertStation(st) ==
  /\ stations' = stations \cup {st}
  /\ UNCHANGED <<orders, segments, placed, segmentDevices, stationSegments, filing, answer>>

(* The ends need not be stations, nor differ from those it had. *)
UpsertSegment(s, ends) ==
  /\ MayPut(s, segments[s], ends, NoEnds)
  /\ ends.from # ends.to
  /\ segments' = [segments EXCEPT ![s] = ends]
  /\ stationSegments' = [st \in Stations |->
       IF st \in {ends.from, ends.to} THEN stationSegments[st] \cup {s} ELSE stationSegments[st]]
  /\ UNCHANGED <<orders, stations, placed, segmentDevices, filing, answer>>

PlaceOnce(x, s) ==  \* Mutation: only a new device is listed
  /\ placed' = [placed EXCEPT ![x] = s]
  /\ segmentDevices' = IF placed[x] = None
                       THEN [segmentDevices EXCEPT ![s] = @ \cup {x}] ELSE segmentDevices

(* PutCompressor, PutValve, PutPoint with a segment: x is listed on s, and *)
(* stays listed where it was.                                              *)
Place(x, s) ==
  /\ placed' = [placed EXCEPT ![x] = s]
  /\ segmentDevices' = [segmentDevices EXCEPT ![s] = @ \cup {x}]

(* UpsertCompressor, UpsertValve, UpsertPoint.  The station, which a valve *)
(* or point may go without, is looked up too, and kept in no index.        *)
UpsertDevice(x, s, st) ==
  /\ MayPut(x, placed[x], s, None)
  /\ x \in Compressors => st # None
  /\ st # None => st \in stations
  /\ Exists(s)
  /\ Place(x, s)
  /\ UNCHANGED <<orders, stations, segments, stationSegments, filing, answer>>

(* A point of a station only is on no segment. *)
UpsertStationPoint(p) ==
  /\ MayPut(p, placed[p], None, None)
  /\ placed' = [placed EXCEPT ![p] = None]
  /\ UNCHANGED <<orders, stations, segments, segmentDevices, stationSegments, filing, answer>>

-----------------------------------------------------------------------------
(* dispatch's Create: the segment is read off the device, ... *)
CreateRead(h, d) ==
  /\ filing[h] = NoRequest
  /\ placed[d] # None
  /\ filing' = [filing EXCEPT ![h] = [device |-> d, segment |-> placed[d]]]
  /\ UNCHANGED <<orders, netVars, answer>>

(* ... and put into the order for good (what it commands is in Dispatch). *)
CreatePut(h, o) ==
  LET r == filing[h] IN
  /\ r # NoRequest
  /\ PutOrder(o, "open_valve", r.device, r.segment)
  /\ filing' = [filing EXCEPT ![h] = NoRequest]
  /\ UNCHANGED <<netVars, answer>>

(* Issue, Execute and Revoke, in which devices are not moved. *)
MoveOrder(o, s) ==
  /\ MayWriteOrder(o, s)
  /\ UpdateOrder(o, s)
  /\ UNCHANGED <<netVars, filing, answer>>

-----------------------------------------------------------------------------
(* ListSegmentDevices: the segment is looked up, ... *)
ListBegin(r, s) ==
  /\ Exists(s)
  /\ answer' = [answer EXCEPT ![r] =
       [segment |-> s, read |-> 0, held |-> {}, before |-> {x \in Items : placed[x] = s}]]
  /\ UNCHANGED <<orders, netVars, filing>>

ListNextCopied(r) ==  \* Mutation: the points are looked for among the valves
  LET a == answer[r] IN
  /\ a.segment # None /\ a.read < Len(Lists)
  /\ answer' = [answer EXCEPT ![r].read = @ + 1,
       ![r].held = @ \cup (segmentDevices[a.segment] \cap Lists[IF a.read = 2 THEN 2 ELSE a.read + 1])]
  /\ UNCHANGED <<orders, netVars, filing>>

(* ... and then each of its lists: SegmentCompressors, SegmentValves,      *)
(* SegmentPoints.  (What is in an index is stored, so they skip nothing.)  *)
ListNext(r) ==
  LET a == answer[r] IN
  /\ a.segment # None /\ a.read < Len(Lists)
  /\ answer' = [answer EXCEPT ![r].read = @ + 1,
       ![r].held = @ \cup (segmentDevices[a.segment] \cap Lists[a.read + 1])]
  /\ UNCHANGED <<orders, netVars, filing>>

-----------------------------------------------------------------------------
TopologyNext ==
  \/ \E st \in StationInputs : UpsertStation(st)
  \/ \E s \in Segments, ends \in EndsInputs : UpsertSegment(s, ends)
  \/ \E x \in Items, s \in Segments, st \in Stations \cup {None} : UpsertDevice(x, s, st)
  \/ \E p \in Points : UpsertStationPoint(p)
  \/ \E h \in Creators, d \in Devices : CreateRead(h, d)
  \/ \E h \in Creators, o \in Orders : CreatePut(h, o)
  \/ \E o \in Orders, s \in OrderState : MoveOrder(o, s)
  \/ \E r \in Readers : ListNext(r) \/ \E s \in Segments : ListBegin(r, s)

TopologySpec == TopologyInit /\ [][TopologyNext]_topologyVars

-----------------------------------------------------------------------------
TopologyTypeOK ==
  /\ orders \in [Orders -> OrderRecord]
  /\ stations \subseteq Stations
  /\ segments \in [Segments -> Ends \cup {NoEnds}]
  /\ placed \in [Items -> Segments \cup {None}]
  /\ segmentDevices \in [Segments -> SUBSET Items]
  /\ stationSegments \in [Stations -> SUBSET Segments]
  /\ filing \in [Creators -> [device : Devices \cup {None}, segment : Segments \cup {None}]]
  /\ answer \in [Readers -> [segment : Segments \cup {None}, read : 0 .. Len(Lists),
                             held : SUBSET Items, before : SUBSET Items]]

(***************************************************************************)
(* However things are moved, a segment lists every device and point on it, *)
(* is a stored segment, and is listed at both of its ends.                 *)
(***************************************************************************)
EverythingListed ==
  /\ \A x \in Items : placed[x] # None => x \in segmentDevices[placed[x]] /\ Exists(placed[x])
  /\ \A s \in Segments : Exists(s) =>
       s \in stationSegments[segments[s].from] \cap stationSegments[segments[s].to]

(***************************************************************************)
(* However things move between the three reads of ListSegmentDevices, its  *)
(* answer has everything that was on the segment when the request came and *)
(* is there, and of the things that are never moved nothing else.  (What   *)
(* has moved away stays listed: the Puts only add to the index.)           *)
(***************************************************************************)
AnswersExact ==
  \A r \in Readers : answer[r].read = Len(Lists) =>
    LET a == answer[r] IN
    /\ {x \in a.before : placed[x] = a.segment} \subseteq a.held
    /\ \A x \in a.held \cap Settled : placed[x] = a.segment

(***************************************************************************)
(* The permit service, asking for the pending orders of a segment, is told *)
(* of every open order for a device that is on the segment and has never   *)
(* been moved.  (An order for a device that moved stays where it was.)     *)
(***************************************************************************)
OpenOrdersFound ==
  \A o \in Orders : orders[o].state \in {"pending", "issued"} /\ orders[o].device \in Settled
    => o \in PendingOrders(placed[orders[o].device])
=============================================================================
