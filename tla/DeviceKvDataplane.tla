--------------------------- MODULE DeviceKvDataplane ---------------------------
(* The device KV dataplane: tensors of llama.cpp, with strides in bytes, are  *)
(* converted into the active page of a layer.  Sealing and attention are      *)
(* entry points that refuse.  One thread calls; CUDA may fail at each call.   *)
EXTENDS Integers, FiniteSets, Functions

CONSTANTS LayerIds, PageSize, KvHeads, HeadDim,
          Strides,     \* bytes a stride may have
          Lengths,     \* token counts of the tensors
          Begins,      \* token positions the caller gives
          Word,        \* uint32_t holds 0 .. Word - 1
          MaxAppends   \* bound: appends of a behaviour

VARIABLES layers,      \* begin, count, and the buffers k and v: index -> value, or none
          activeBytes, \* counters.active_bytes, in values
          appends,     \* appends so far; stamps the values of each
          accepted     \* per layer, the stamp of every append that returned 0 since the last clear

dataVars == <<layers, activeBytes, appends, accepted>>

Width == 2             \* scalar_bytes
Garbage == [stamp |-> 0, token |-> 0, head |-> 0, dim |-> 0]
PageIndices == 0 .. PageSize * KvHeads * HeadDim - 1

\* cf_device_tensor_validate
Validated(view) ==
  /\ view.tokens > 0 /\ view.element >= Width
  /\ view.head >= (HeadDim - 1) * view.element + Width
  /\ view.token >= (KvHeads - 1) * view.head + (HeadDim - 1) * view.element + Width

Offset(view, t, h, d) == t * view.token + h * view.head + d * view.element

\* What the producer of a tensor left at one place of it: the value meant for
\* it, unless the bytes of another place of the view overlap it.
Loaded(view, stamp, t, h, d) ==
  LET places == (0 .. view.tokens - 1) \X (0 .. KvHeads - 1) \X (0 .. HeadDim - 1)
      at(p)  == Offset(view, p[1], p[2], p[3])
      clear  == \A p \in places \ {<<t, h, d>>} : at(p) >= Offset(view, t, h, d) + Width \/ at(p) + Width <= Offset(view, t, h, d)
  IN IF clear THEN [stamp |-> stamp, token |-> t, head |-> h, dim |-> d] ELSE Garbage

Converted(buffer, view, stamp, first) ==
  LET value(index) == Loaded(view, stamp, index \div (HeadDim * KvHeads), (index \div HeadDim) % KvHeads, index % HeadDim)
  IN [i \in PageIndices |-> IF i - first \in 0 .. view.tokens * KvHeads * HeadDim - 1 THEN value(i - first) ELSE buffer[i]]

ConvertAtStart(buffer, view, stamp, offset) == Converted(buffer, view, stamp, 0)

\* convert_to_active: one thread an index, to its place from the offset of the
\* tokens held on.
Convert(buffer, view, stamp, offset) == Converted(buffer, view, stamp, offset * KvHeads * HeadDim)

Allocated(buffer) == IF buffer = <<>> THEN [i \in PageIndices |-> Garbage] ELSE buffer
Size(buffer) == Cardinality(DOMAIN buffer)
Bytes(ls) == SumFunction([l \in LayerIds |-> Size(ls[l].k) + Size(ls[l].v)])

\* Both buffers are there, the tokens are in them if the kernels ran, and the
\* layer begins where its first tokens do: from before the launch error is read.
Launched(layer, begin, keys, values, stamp, ran) ==
  LET ready == [layer EXCEPT !.k = Allocated(@), !.v = Allocated(@), !.begin = IF layer.count = 0 THEN begin ELSE @]
  IN [ready EXCEPT !.k = IF "k" \in ran THEN Convert(@, keys, stamp, layer.count) ELSE @,
                   !.v = IF "v" \in ran THEN Convert(@, values, stamp, layer.count) ELSE @]

\* Topology, contiguity and room, in the unsigned arithmetic of the code: an append
\* that would cross the page is refused.
Appendable(layer, begin, keys, values) ==
  /\ Validated(keys) /\ Validated(values) /\ keys.tokens = values.tokens
  /\ layer.count # 0 => begin = (layer.begin + layer.count) % Word
  /\ (layer.count + keys.tokens) % Word <= PageSize

AppendAsync(l, begin, keys, values) ==
  /\ Appendable(layers[l], begin, keys, values) /\ appends < MaxAppends
  /\ layers' = [layers EXCEPT ![l] = [Launched(layers[l], begin, keys, values, appends + 1, {"k", "v"})
                                        EXCEPT !.count = @ + keys.tokens]]
  /\ activeBytes' = Bytes(layers')
  /\ accepted' = [accepted EXCEPT ![l] = @ \cup {[stamp |-> appends + 1, begin |-> begin, tokens |-> keys.tokens]}]
  /\ appends' = appends + 1

\* An allocation fails, of K or of V, or the launch; kernels may have run or not.
AppendFails(l, begin, keys, values) ==
  /\ Appendable(layers[l], begin, keys, values) /\ appends < MaxAppends
  /\ \/ layers[l].k = <<>> /\ layers' = layers
     \/ layers[l].v = <<>> /\ layers' = [layers EXCEPT ![l].k = Allocated(@)]
     \/ \E ran \in SUBSET {"k", "v"} :
          layers' = [layers EXCEPT ![l] = Launched(@, begin, keys, values, appends + 1, ran)]
  /\ appends' = appends + 1
  /\ UNCHANGED <<activeBytes, accepted>>

\* cf_device_kv_clear_async: buffers are released, positions start anew.
Empty == [begin |-> 0, count |-> 0, k |-> <<>>, v |-> <<>>]
Clear ==
  /\ layers' = [l \in LayerIds |-> Empty]
  /\ activeBytes' = 0
  /\ accepted' = [l \in LayerIds |-> {}]
  /\ UNCHANGED appends

\* Sealing is not enabled: a full page stays until the layer is cleared, and
\* attention always refuses.
SealFullPages == UNCHANGED dataVars
Attention == UNCHANGED dataVars

DataInit == /\ layers = [l \in LayerIds |-> Empty] /\ activeBytes = 0 /\ appends = 0
            /\ accepted = [l \in LayerIds |-> {}]

Views == [tokens : Lengths, element : Strides, head : Strides, token : Strides]
Plain == [tokens |-> 1, element |-> Width, head |-> HeadDim * Width, token |-> KvHeads * HeadDim * Width]

DataNext ==
  \/ \E l \in LayerIds, begin \in Begins, view \in Views :
       LET plain == [Plain EXCEPT !.tokens = view.tokens]
       IN \/ AppendAsync(l, begin, view, plain) \/ AppendFails(l, begin, view, plain)
          \/ AppendAsync(l, begin, plain, view) \/ AppendFails(l, begin, plain, view)
  \/ Clear \/ SealFullPages \/ Attention

-----------------------------------------------------------------------------

\* The active page is the accepted appends and nothing else: each of its tokens
\* holds, in both buffers and for every head and dimension, the value the append
\* of its position was given, however the tensor was laid out, and whatever an
\* append that failed, before or since, wrote or allocated.
ActivePageExact ==
  /\ \A l \in LayerIds :
       LET layer == layers[l]
           value(a, t, h, d) == [stamp |-> a.stamp, token |-> t, head |-> h, dim |-> d]
       IN /\ layer.count = SumFunction([a \in accepted[l] |-> a.tokens])
          /\ \A a \in accepted[l] : \A t \in 0 .. a.tokens - 1, h \in 0 .. KvHeads - 1, d \in 0 .. HeadDim - 1 :
               LET index == ((a.begin + t - layer.begin) * KvHeads + h) * HeadDim + d
               IN index \in PageIndices /\ layer.k[index] = value(a, t, h, d) /\ layer.v[index] = value(a, t, h, d)
  /\ activeBytes <= Bytes(layers)
=============================================================================
