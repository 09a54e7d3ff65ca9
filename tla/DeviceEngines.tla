---------------------------- MODULE DeviceEngines ----------------------------
(* What a llama.cpp graph may append its keys and values to: the sealing      *)
(* engine, the dataplane, and the compressed cache behind either of its two   *)
(* clients, the graph-eval callback and the bridge.  They are alternatives    *)
(* and share no state, so a behaviour is of one engine.                       *)
EXTENDS SealEngine, FiniteSets

CONSTANTS KvHeads, HeadDim, Strides, Lengths, Word, MaxAppends, \* dataplane
          NLayers, NHeads, MaxBatch, MaxTokens, MaxMade, MaxRejects, MaxHanded, MaxUploadFaults, Succeeding

VARIABLES engine,
          layers, activeBytes, appends, accepted,
          cache, real, made, pass, pend, tok, query, served, errors, rejects, kvFaults, reported

Dataplane == INSTANCE DeviceKvDataplane WITH LayerIds <- Layers
Callback == INSTANCE KvCallback WITH MaxFaults <- MaxUploadFaults, faults <- kvFaults
Bridge == INSTANCE RuntimeBridge WITH MaxMade <- MaxHanded, MaxFaults <- MaxUploadFaults, faults <- kvFaults

\* cf_device_kv_create: there are heads of some dimension; strides are unsigned.
\* Tensors and positions stay a page below what 32 bits hold, where the sums of the
\* capacity and the contiguity check would wrap.
ASSUME PlaneConstants ==
  /\ IsFiniteSet(Layers) /\ KvHeads \in Nat \ {0} /\ HeadDim \in Nat \ {0} /\ Strides \subseteq Nat
  /\ Word \in Nat \ {0} /\ Lengths \subseteq Nat \ {0}
  /\ \A n \in Lengths \cup Begins : n + PageSize < Word

\* CompressedKvCache, validate_config: there are layers and heads.
ASSUME CacheConstants ==
  /\ {NLayers, NHeads} \subseteq Nat \ {0}
  /\ {MaxBatch, MaxTokens, MaxMade, MaxRejects, MaxHanded, MaxUploadFaults} \subseteq Nat /\ Succeeding \subseteq Nat

planeVars   == <<layers, activeBytes, appends, accepted>>
passVars    == <<real, pass, pend, tok, query, served, errors, rejects>>
kvVars      == <<cache, made, kvFaults, passVars, reported>>
deviceVars  == <<engine, vars, planeVars, kvVars>>

NoPlane  == layers = <<>> /\ activeBytes = 0 /\ appends = 0 /\ accepted = <<>>
NoPass   == real = <<>> /\ pass = <<>> /\ pend = <<>> /\ tok = <<>> /\ query = <<>>
            /\ served = <<>> /\ errors = 0 /\ rejects = 0
NoCache  == cache = <<>> /\ made = 0 /\ kvFaults = 0

DeviceInit ==
  /\ Init
  /\ \/ engine = "seal" /\ NoPlane /\ NoCache /\ NoPass /\ reported = <<>>
     \/ engine = "dataplane" /\ Dataplane!DataInit /\ NoCache /\ NoPass /\ reported = <<>>
     \/ engine = "callback" /\ NoPlane /\ Callback!CallbackInit /\ reported = <<>>
     \/ engine = "bridge" /\ NoPlane /\ Bridge!BridgeInit /\ NoPass

DeviceNext ==
  /\ UNCHANGED engine
  /\ \/ engine = "seal" /\ Next /\ UNCHANGED <<planeVars, kvVars>>
     \/ engine = "dataplane" /\ Dataplane!DataNext /\ UNCHANGED <<vars, kvVars>>
     \/ engine = "callback" /\ Callback!CallbackNext /\ UNCHANGED <<vars, planeVars, reported>>
     \/ engine = "bridge" /\ Bridge!BridgeNext /\ UNCHANGED <<vars, planeVars, passVars>>

DeviceSpec == DeviceInit /\ [][DeviceNext]_deviceVars

-----------------------------------------------------------------------------

\* DeviceKvDataplane's, for its behaviours: no append is lost, moved or mixed up.
ActivePageExact == engine = "dataplane" => Dataplane!ActivePageExact

\* The reported statistics are the tokens held, for both clients.
StatsExact == engine \in {"callback", "bridge"} => Callback!StatsExact

\* The heads of a layer hold what the client counts, whatever has failed: the
\* callback's never drift apart, the bridge's only ahead of what it reported.
ClientsInStep == /\ engine = "callback" => Callback!HeadsComplete
                 /\ engine = "bridge" => Bridge!ReportedHeld

\* What the callback overwrites kqv_out with is attention over llama.cpp's tokens.
ServedExact == engine = "callback" => Callback!ServedExact

\* A page whose upload failed is uploaded by the callback's next append.
AppendRecovers == [][engine = "callback" => Callback!Recovers]_deviceVars
=============================================================================
