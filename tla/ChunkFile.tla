----------------------------- MODULE ChunkFile -----------------------------
(***************************************************************************)
(* One chunk from the writer's encoder to a subscriber: the frames of the  *)
(* payload and the index built beside them, both files as sealed, and a    *)
(* reader that parses a subscribe request, plans the chunk from its index  *)
(* and sends the messages the plan names.                                  *)
(*                                                                         *)
(* Keys and signatures are numbers.  Bytes of another length than a key's  *)
(* or a signature's, and strings that do not decode to one, are 0.  A      *)
(* roaring bitmap is a set of ordinals; serialized it is its cardinality   *)
(* followed by its members.  Zstd is a lossless container and left out.    *)
(***************************************************************************)
EXTENDS Naturals, Sequences, FiniteSets, SequencesExt

CONSTANTS
  Updates,      \* the updates a validator may send
  Requests,     \* the subscribe requests
  IdxVersions,  \* versions of the .idx files found in the archive
  MaxMsgs       \* bound: messages in the chunk

VARIABLES
  stream,     \* the lane this chunk belongs to
  received,   \* history: the messages of the chunk, in order of arrival
  raw,        \* the payload written so far, decompressed
  dims,       \* the index builder: dimension -> value -> ordinals
  meta,       \* the counters that become .meta.json
  idx,        \* the .idx file, or NoFile while the chunk is open
  request,    \* the subscriber's request, or NoRequest
  pc,         \* the reader: "none", "planned", "serving", "done", "refused", "failed"
  named,      \* the plan's named_bitmaps
  ords,       \* the ordinals of the union still to be sent
  delivered   \* what the subscriber was sent: <<message, filter names>>

vars == <<stream, received, raw, dims, meta, idx, request, pc, named, ords, delivered>>

Streams == {"tx", "acct", "block"}
NoValue == 0
NoFile == <<>>
NoRequest == <<>>
Decodes(k) == k # NoValue

-----------------------------------------------------------------------------
(* Framing: [u32 LE length][payload].                                      *)

LE32(n) == <<n % 256, (n \div 256) % 256, (n \div 65536) % 256, (n \div 16777216) % 256>>

FromLE32(b) == b[1] + 256 * b[2] + 65536 * b[3] + 16777216 * b[4]

\* The encoded message: prost is lossless, and sizes tell the messages apart.
Encode(m) == [k \in 1..m.size |-> (16 * m.size + k) % 256]

WriteLenPrefixed(payload) == LE32(Len(payload)) \o payload

BadFrame == [start |-> 0, end |-> 0]

(***************************************************************************)
(* FrameIter: the ranges of the payloads from offset p on.  A short prefix *)
(* or a length past the end yields one error and ends the iteration.       *)
(***************************************************************************)
IterFrames(data) ==
  LET from[p \in 0..Len(data)] ==
        LET left == Len(data) - p
            len == FromLE32(SubSeq(data, p + 1, p + 4))
        IN  IF left = 0 THEN <<>>
            ELSE IF left < 4 \/ len > left - 4 THEN <<BadFrame>>
            ELSE <<[start |-> p + 4, end |-> p + 4 + len]>> \o from[p + 4 + len]
  IN  from[0]

\* decode_chunk fails as a whole when one frame does.
DecodeChunk(data) ==
  LET frames == IterFrames(data)
  IN  IF \E i \in DOMAIN frames : frames[i] = BadFrame THEN NoFile ELSE frames

\* decode_message: the message at an ordinal, or {} out of range or undecodable.
DecodeMessage(data, frames, ord) ==
  IF ord + 1 \notin DOMAIN frames THEN {}
  ELSE LET f == frames[ord + 1]
           bytes == SubSeq(data, f.start + 1, f.end)
       IN  {m \in Updates : Encode(m) = bytes}

-----------------------------------------------------------------------------
(* The index builder.                                                      *)

\* IndexBuilder::for_stream: the dimensions of a stream, in file order.
Order ==
  [tx |-> <<"program_id", "account_key", "signature", "vote_flag", "failed_flag">>,
   acct |-> <<"account_pubkey", "owner_program">>,
   block |-> <<"slot", "parent_slot">>]

Keys(s) == {s[i] : i \in DOMAIN s} \ {NoValue}

\* Static keys first, then loaded writable, then loaded readonly addresses.
Resolved(m) == m.keys \o m.writable \o m.readonly

\* observe_tx: the values one transaction is filed under, by dimension.  The
\* program ids are looked up by position among the resolved keys.
ObserveTx(m) ==
  LET used == {m.ixs[n] : n \in DOMAIN m.ixs}
  IN  [signature |-> {m.sig} \ {NoValue},
       vote_flag |-> IF m.vote THEN {TRUE} ELSE {},
       failed_flag |-> IF m.failed THEN {TRUE} ELSE {},
       account_key |-> Keys(Resolved(m)),
       program_id |-> {Resolved(m)[i + 1] : i \in {j \in used : j < Len(Resolved(m))}}
                      \ {NoValue}]

ObserveAcct(m) ==
  [account_pubkey |-> {m.pubkey} \ {NoValue}, owner_program |-> {m.owner} \ {NoValue}]

ObserveBlock(m) == [slot |-> {m.slot}, parent_slot |-> {m.parent}]

\* observe: an update without its inner message is filed under nothing.
Observe(m) ==
  CASE ~m.info -> [d \in {Order[stream][i] : i \in DOMAIN Order[stream]} |-> {}]
    [] stream = "tx" -> ObserveTx(m)
    [] stream = "acct" -> ObserveAcct(m)
    [] stream = "block" -> ObserveBlock(m)

\* insert, for each value of each dimension.
Insert(d, m, ord) ==
  [name \in DOMAIN d |->
     [v \in DOMAIN d[name] \cup Observe(m)[name] |->
        (IF v \in DOMAIN d[name] THEN d[name][v] ELSE {})
          \cup (IF v \in Observe(m)[name] THEN {ord} ELSE {})]]

-----------------------------------------------------------------------------
(* The .idx file.                                                          *)

IDX_VERSION == 1

Blob(bitmap) == <<Cardinality(bitmap)>> \o SetToSortSeq(bitmap, <)

\* One bitmap goes to the end of the body and its place into the header.
SerializeValue(d, acc, v) ==
  [body |-> acc.body \o Blob(d[v]),
   entries |-> Append(acc.entries, [value |-> v, offset |-> Len(acc.body),
                                    length |-> Len(Blob(d[v]))])]

SerializeDim(acc, name) ==
  LET value(a, v) == SerializeValue(dims[name], a, v)
      r == FoldLeft(value, [body |-> acc.body, entries |-> <<>>], SetToSeq(DOMAIN dims[name]))
  IN  [body |-> r.body, header |-> Append(acc.header, [name |-> name, entries |-> r.entries])]

\* serialize: the header names, for each value, the slice of the body.
Serialize(version) ==
  LET r == FoldLeft(SerializeDim, [body |-> <<>>, header |-> <<>>], Order[stream])
  IN  [version |-> version, message_count |-> meta.message_count,
       header |-> r.header, body |-> r.body]

\* Reading a bitmap back stops where the blob says it ends.
Deserialize(blob) ==
  IF Len(blob) = 0 \/ Len(blob) < 1 + blob[1] THEN {} ELSE {blob[i] : i \in 2..1 + blob[1]}

\* The lookup table of parse_chunk_index: the entries of one dimension.
Lookup(file, dim) ==
  UNION {{file.header[i].entries[j] : j \in DOMAIN file.header[i].entries} :
           i \in {n \in DOMAIN file.header : file.header[n].name = dim}}

\* bitmap_for: {} for a value that is not there, and, as in every caller,
\* for a slice that is out of bounds or does not deserialize.
BitmapFor(file, dim, v) ==
  UNION {IF e.offset + e.length > Len(file.body) THEN {}
         ELSE Deserialize(SubSeq(file.body, e.offset + 1, e.offset + e.length)) :
         e \in {x \in Lookup(file, dim) : x.value = v}}

-----------------------------------------------------------------------------
(* The filters: bitmap algebra over the index.                             *)

MatchAll(file) == {n \in 0..MaxMsgs : n < file.message_count}

Flag_PositiveOnly(file, want, dim) ==
  IF want = "any" THEN MatchAll(file) ELSE BitmapFor(file, dim, TRUE)

\* vote and failed: the index is positive only, FALSE is the complement.
Flag(file, want, dim) ==
  CASE want = "any" -> MatchAll(file)
    [] want = "yes" -> BitmapFor(file, dim, TRUE)
    [] want = "no" -> MatchAll(file) \ BitmapFor(file, dim, TRUE)

\* An OR-list over the keys that decode; a list without any is no constraint.
AnyOf(file, dim, keys) ==
  LET valid == {k \in keys : Decodes(k)}
  IN  IF valid = {} THEN MatchAll(file) ELSE UNION {BitmapFor(file, dim, k) : k \in valid}

\* signature and account_required are strict, account_exclude is lenient.
FilterTx(file, f) ==
  IF (\E s \in f.signature : ~Decodes(s)) \/ (\E k \in f.required : ~Decodes(k)) THEN {}
  ELSE {n \in Flag(file, f.vote, "vote_flag") \cap Flag(file, f.failed, "failed_flag")
                \cap AnyOf(file, "account_key", f.include) :
          /\ \A s \in f.signature : n \in BitmapFor(file, "signature", s)
          /\ \A k \in f.required : n \in BitmapFor(file, "account_key", k)
          /\ \A k \in f.exclude : Decodes(k) => n \notin BitmapFor(file, "account_key", k)}

FilterAcct(file, f) ==
  AnyOf(file, "account_pubkey", f.account) \cap AnyOf(file, "owner_program", f.owner)

FilterBlock(file, f) == MatchAll(file)

-----------------------------------------------------------------------------
(* The request.                                                            *)

\* The named filters of a request for a stream.
FiltersFor(r) ==
  CASE stream = "tx" -> r.transactions
    [] stream = "acct" -> r.accounts
    [] stream = "block" -> r.blocks_meta

\* parse_subscribe_request accepts what the index can answer.  A slots
\* subscription and a commitment are ignored.
ParseSubscribeRequest(r) ==
  /\ r.unsupported \cap {"blocks", "entry", "transactions_status", "accounts_data_slice"} = {}
  /\ DOMAIN r.transactions \cup DOMAIN r.accounts \cup DOMAIN r.blocks_meta # {}
  /\ \A n \in DOMAIN r.accounts : ~r.accounts[n].memcmp /\ ~r.accounts[n].nonempty

-----------------------------------------------------------------------------
(* The writer.                                                             *)

\* ChunkMeta, as far as it describes the payload.
NewMeta == [message_count |-> 0, uncompressed_bytes |-> 0, slots |-> {}]

Init ==
  /\ stream \in Streams
  /\ received = <<>> /\ raw = <<>>
  /\ dims = [d \in {Order[stream][i] : i \in DOMAIN Order[stream]} |-> <<>>]
  /\ meta = NewMeta
  /\ idx = NoFile /\ request = NoRequest
  /\ pc = "none" /\ named = <<>> /\ ords = {} /\ delivered = <<>>

Bound_Latest(S, m) == {s \in S : \A t \in S : s =< t} \cup {m.slot}

\* first_message_slot and last_message_slot are a minimum and a maximum.
Bound(S, m) ==
  LET all == S \cup {m.slot}
  IN  {CHOOSE s \in all : \A t \in all : s =< t, CHOOSE s \in all : \A t \in all : s >= t}

\* filter_for: a lane subscribes to one kind of update.
FilterFor(s) == CASE s = "tx" -> "transaction" [] s = "acct" -> "account" [] s = "block" -> "block_meta"

\* What its subscription yields: those, and pings that keep it open.
Arrives(m) == m.kind \in {FilterFor(stream), "ping"}

\* extract_slot: the lane drops what has no slot.
HasSlot(m) == m.kind \in {"transaction", "account", "block_meta"}

\* OpenChunk::append: frame, index under the count so far, count.
AppendMsg(m) ==
  LET framed == WriteLenPrefixed(Encode(m))
  IN  /\ idx = NoFile /\ Len(received) < MaxMsgs
      /\ Arrives(m) /\ HasSlot(m)
      /\ received' = Append(received, m)
      /\ raw' = raw \o framed
      /\ dims' = Insert(dims, m, meta.message_count)
      /\ meta' = [message_count |-> meta.message_count + 1,
                  uncompressed_bytes |-> meta.uncompressed_bytes + Len(framed),
                  slots |-> Bound(meta.slots, m)]
      /\ UNCHANGED <<stream, idx, request, pc, named, ords, delivered>>

\* seal_chunk writes the index; a chunk holds at least one message.
Seal(version) ==
  /\ idx = NoFile /\ received # <<>>
  /\ idx' = Serialize(version)
  /\ UNCHANGED <<stream, received, raw, dims, meta, request, pc, named, ords, delivered>>

-----------------------------------------------------------------------------
(* The reader.                                                             *)

Subscribe(r) ==
  /\ idx # NoFile /\ pc = "none"
  /\ request' = r
  /\ pc' = IF ParseSubscribeRequest(r) THEN "parsed" ELSE "refused"
  /\ UNCHANGED <<stream, received, raw, dims, meta, idx, named, ords, delivered>>

NamedBitmaps(r) ==
  [n \in DOMAIN FiltersFor(r) |->
     CASE stream = "tx" -> FilterTx(idx, FiltersFor(r)[n])
       [] stream = "acct" -> FilterAcct(idx, FiltersFor(r)[n])
       [] stream = "block" -> FilterBlock(idx, FiltersFor(r)[n])]

\* plan_replay, for this chunk: parse the index, evaluate each named filter.
Plan ==
  /\ pc = "parsed"
  /\ IF DOMAIN FiltersFor(request) = {}
     THEN pc' = "done" /\ UNCHANGED <<named, ords>>
     ELSE IF idx.version # IDX_VERSION
     THEN pc' = "failed" /\ UNCHANGED <<named, ords>>
     ELSE /\ named' = NamedBitmaps(request)
          /\ ords' = UNION {named'[n] : n \in DOMAIN named'}
          /\ pc' = "planned"
  /\ UNCHANGED <<stream, received, raw, dims, meta, idx, request, delivered>>

\* peek opens the chunk unless the union is empty.
Open ==
  /\ pc = "planned"
  /\ pc' = CASE ords = {} -> "done"
             [] ords # {} /\ DecodeChunk(raw) = NoFile -> "failed"
             [] OTHER -> "serving"
  /\ UNCHANGED <<stream, received, raw, dims, meta, idx, request, named, ords, delivered>>

\* peek takes the next ordinal of the union, decodes its message and collects
\* the names of the filters that contain it; the message is then sent.
Send ==
  LET ord == CHOOSE n \in ords : \A k \in ords : n =< k
      msgs == DecodeMessage(raw, DecodeChunk(raw), ord)
      names == {n \in DOMAIN named : ord \in named[n]}
  IN  /\ pc = "serving"
      /\ ords' = ords \ {ord}
      /\ \/ /\ msgs = {}
            /\ pc' = "failed" /\ UNCHANGED delivered
         \/ \E m \in msgs :
              /\ delivered' = Append(delivered, <<m, names>>)
              /\ pc' = IF ords' = {} THEN "done" ELSE "serving"
      /\ UNCHANGED <<stream, received, raw, dims, meta, idx, request, named>>

Next ==
  \/ \E m \in Updates : AppendMsg(m)
  \/ \E v \in IdxVersions : Seal(v)
  \/ \E r \in Requests : Subscribe(r)
  \/ Plan \/ Open \/ Send

Spec == Init /\ [][Next]_vars

-----------------------------------------------------------------------------
(* What a filter means, read off the message itself.                       *)

HasKey(m, k) ==
  m.info /\ \E s \in {m.keys, m.writable, m.readonly} : \E i \in DOMAIN s : s[i] = k

WantsTx(f, m) ==
  /\ f.vote # "any" => (f.vote = "yes" <=> (m.info /\ m.vote))
  /\ f.failed # "any" => (f.failed = "yes" <=> (m.info /\ m.failed))
  /\ \A s \in f.signature : Decodes(s) /\ m.info /\ m.sig = s
  /\ (\E k \in f.include : Decodes(k)) => \E k \in f.include : Decodes(k) /\ HasKey(m, k)
  /\ \A k \in f.required : Decodes(k) /\ HasKey(m, k)
  /\ \A k \in f.exclude : Decodes(k) => ~HasKey(m, k)

WantsAcct(f, m) ==
  /\ (\E k \in f.account : Decodes(k)) => m.info /\ m.pubkey \in f.account \ {NoValue}
  /\ (\E k \in f.owner : Decodes(k)) => m.info /\ m.owner \in f.owner \ {NoValue}
  /\ f.memcmp => m.memcmp
  /\ f.nonempty => m.nonempty

\* The names of the filters a message satisfies.
Wanted(m) ==
  {n \in DOMAIN FiltersFor(request) :
     CASE stream = "tx" -> WantsTx(FiltersFor(request)[n], m)
       [] stream = "acct" -> WantsAcct(FiltersFor(request)[n], m)
       [] stream = "block" -> TRUE}

Expected ==
  LET hit(m) == Wanted(m) # {}
      all == SelectSeq(received, hit)
  IN  [i \in DOMAIN all |-> <<all[i], Wanted(all[i])>>]

(***************************************************************************)
(* The subscriber gets exactly the messages that satisfy one of its        *)
(* filters, in the order of the chunk, each with the names of all the      *)
(* filters it satisfies: what the writer indexed, the places in the file,  *)
(* the filters' bitmap algebra and the cursor agree with the meaning of    *)
(* the request.  A constraint the index cannot answer is never ignored.    *)
(* Serving fails for an index of another version only: each ordinal of the *)
(* index has a frame that decodes.                                         *)
(***************************************************************************)
DeliveredExact ==
  /\ pc = "serving" => IsPrefix(delivered, Expected)
  /\ pc = "done" => delivered = Expected
  /\ pc = "failed" => idx.version # IDX_VERSION

\* The key at a position of the resolved list.
KeyAt(m, i) ==
  LET w == Len(m.keys) + Len(m.writable)
  IN  CASE i < Len(m.keys) -> m.keys[i + 1]
        [] i >= Len(m.keys) /\ i < w -> m.writable[i - Len(m.keys) + 1]
        [] i >= w /\ i < w + Len(m.readonly) -> m.readonly[i - w + 1]
        [] OTHER -> NoValue

\* Each transaction is listed under the keys its top-level instructions name,
\* wherever among static, writable and readonly keys they are.
ProgramsIndexed ==
  stream = "tx" =>
    \A ord \in 0..Len(received) - 1 :
      LET m == received[ord + 1]
          programs == {KeyAt(m, m.ixs[n]) : n \in DOMAIN m.ixs} \ {NoValue}
      IN  m.info => {e.value : e \in {x \in Lookup(idx, "program_id") :
                       ord \in BitmapFor(idx, "program_id", x.value)}} = programs

(***************************************************************************)
(* What no subscriber reads back describes the payload as well: the        *)
(* program dimension of the .idx file, and .meta.json, whose counters are  *)
(* those of the frames a reader decodes and whose slots bound every        *)
(* message, in whatever order they arrived.                                *)
(***************************************************************************)
SidecarsDescribe ==
  idx # NoFile =>
    /\ ProgramsIndexed
    /\ meta.message_count = Len(IterFrames(raw))
    /\ meta.uncompressed_bytes = Len(raw)
    /\ \A i \in DOMAIN received :
         \E lo, hi \in meta.slots : lo =< received[i].slot /\ received[i].slot =< hi
=============================================================================
