--------------------------- MODULE EmulatorService ---------------------------
(***************************************************************************)
(* What the agents exchange with the emulator: the types of                *)
(* compute/src/emulator_service.rs, their conversions to and from the      *)
(* messages of the emulator's protocol, and the archive of answers that    *)
(* the agents read them from (compute/src/lib.rs).                         *)
(*                                                                         *)
(* A byte string of the length that its reader asks for is a member of     *)
(* H256 or Bytes8. A field that a message may lack is a set of at most one *)
(* element. A conversion panics on a message that lacks a field or whose   *)
(* byte strings have another length: it is defined where its Reads...      *)
(* predicate holds. Lists are functions.                                   *)
(***************************************************************************)

CONSTANTS H256,  \* strings of 32 bytes
          Bytes8 \* strings of 8 bytes

Some(x) == {x}
Unwrap(field) == CHOOSE x \in field : TRUE

Map(f(_), list) == [i \in DOMAIN list |-> f(list[i])]

-----------------------------------------------------------------------------
\* Mutants of the operators below: the key leaves the times out; the word read is lost.
KeyOfMachine(id, times) == [id |-> id]
WrittenTwice(wordRead, wordWritten) == [read |-> wordWritten, written |-> wordWritten]

\* The type Hash of the protocol; from_slice panics on any other length.
ReadsHash(message) == message.data \in H256
HashFrom(message)  == message.data
HashTo(hash)       == [data |-> hash]

-----------------------------------------------------------------------------
\* Session run: hashes at the cycles asked for, or how far the machine has come.
SessionRunRequest(id, times) == [session_id |-> id, final_cycles |-> times]

RunProgress(p) ==
  [progress |-> p.progress, application_progress |-> p.application_progress,
   updated_at |-> p.updated_at, cycle |-> p.cycle]

RunResultFrom(message) == [hashes |-> Map(HashFrom, message.hashes)]
RunResultTo(result)    == [hashes |-> Map(HashTo, result.hashes)]

RunOneOfFrom(message) ==
  IF message.field = "progress"
  THEN [variant |-> "RunProgress", content |-> RunProgress(message.content)]
  ELSE [variant |-> "RunResult", content |-> RunResultFrom(message.content)]
RunOneOfTo(oneOf) ==
  IF oneOf.variant = "RunProgress"
  THEN [field |-> "progress", content |-> RunProgress(oneOf.content)]
  ELSE [field |-> "result", content |-> RunResultTo(oneOf.content)]

ReadsRunResponse(message) ==
  \E oneOf \in message.run_oneof :
    oneOf.field = "result" =>
      \A i \in DOMAIN oneOf.content.hashes : ReadsHash(oneOf.content.hashes[i])
RunResponseFrom(message) == [one_of |-> RunOneOfFrom(Unwrap(message.run_oneof))]
RunResponseTo(response)  == [run_oneof |-> Some(RunOneOfTo(response.one_of))]

-----------------------------------------------------------------------------
\* Session step: the accesses that one step of the machine makes, each with its proof.
SessionStepRequest(id, time) == [session_id |-> id, initial_cycle |-> time]

AccessTypeFrom(op) == IF op = "READ" THEN "Read" ELSE "Write"
AccessTypeTo(op)   == IF op = "Read" THEN "READ" ELSE "WRITE"

ReadsProof(message) ==
  /\ \E hash \in message.target_hash : ReadsHash(hash)
  /\ \E hash \in message.root_hash : ReadsHash(hash)
  /\ \A i \in DOMAIN message.sibling_hashes : ReadsHash(message.sibling_hashes[i])
ProofFrom(message) ==
  [address          |-> message.target_address,
   log2_target_size |-> message.log2_target_size,
   log2_root_size   |-> message.log2_root_size,
   target_hash      |-> HashFrom(Unwrap(message.target_hash)),
   sibling_hashes   |-> Map(HashFrom, message.sibling_hashes),
   root_hash        |-> HashFrom(Unwrap(message.root_hash))]
ProofTo(proof) ==
  [target_address   |-> proof.address,
   log2_target_size |-> proof.log2_target_size,
   log2_root_size   |-> proof.log2_root_size,
   target_hash      |-> Some(HashTo(proof.target_hash)),
   sibling_hashes   |-> Map(HashTo, proof.sibling_hashes),
   root_hash        |-> Some(HashTo(proof.root_hash))]

\* The two words of an access; to_bytes accepts eight bytes only.
Words(wordRead, wordWritten) == [read |-> wordRead, written |-> wordWritten]

\* The address of an access is that of its proof.
ReadsAccess(message) ==
  /\ \E proof \in message.proof : ReadsProof(proof)
  /\ {message.read, message.written} \subseteq Bytes8
AccessFrom(message) ==
  LET proof == ProofFrom(Unwrap(message.proof))
      words == Words(message.read, message.written)
  IN  [field_type    |-> AccessTypeFrom(message.field_type),
       address       |-> proof.address,
       value_read    |-> words.read,
       value_written |-> words.written,
       proof         |-> proof]
AccessTo(access) ==
  [field_type |-> AccessTypeTo(access.field_type),
   read       |-> access.value_read,
   written    |-> access.value_written,
   proof      |-> Some(ProofTo(access.proof))]

ReadsStepResponse(message) ==
  \E log \in message.log : \A i \in DOMAIN log.accesses : ReadsAccess(log.accesses[i])
StepResponseFrom(message) == [log |-> Map(AccessFrom, Unwrap(message.log).accesses)]
StepResponseTo(response)  == [log |-> Some([accesses |-> Map(AccessTo, response.log)])]

-----------------------------------------------------------------------------
\* The archive keeps one answer under each key.
build_session_run_key(id, times) == [id |-> id, run |-> times]
build_session_step_key(id, time) == [id |-> id, step |-> time]

EmptyArchive == [key \in {} |-> {}]
Insert(archive, key, response) ==
  [k \in DOMAIN archive \union {key} |-> IF k = key THEN response ELSE archive[k]]

\* get_response, when there is an answer; else the dispatcher asks for one.
Responses(archive, key) == {archive[k] : k \in DOMAIN archive \intersect {key}}

\* get_run_result: an answer that reports progress is as good as none (ServiceNeedsRetry).
RunResults(archive, key) ==
  {r.content : r \in {s \in {RunResponseFrom(m).one_of : m \in Responses(archive, key)} :
                        s.variant = "RunResult"}}
=============================================================================
