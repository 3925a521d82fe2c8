--------------------------- MODULE RuntimeMetadata ---------------------------
(***************************************************************************)
(* SubstrateClient::new (subvt-substrate-client/src/lib.rs) and the        *)
(* Metadata::from it calls (metadata.rs): connect, read the runtime        *)
(* metadata and convert it, read the system properties and the chain.      *)
(*                                                                         *)
(* The node's runtime has one event and one call, each with one argument,  *)
(* whose type the metadata spells in Rust syntax (TypeName).  Conversion   *)
(* parses every argument with FromStr; Metadata::from then reads the       *)
(* Babe, Staking and System constants and runs the primitive-support       *)
(* check over the event arguments.  Every request can fail; a failure ends *)
(* construction with an error, which the services' loops retry.           *)
(***************************************************************************)
EXTENDS Naturals, Sequences, SequencesExt

CONSTANTS
    Names,          \* primitive type names
    Known,          \* the names the argument decoder knows (spec 4.2)
    EventArgTypes,  \* types a runtime may give its event argument
    CallArgTypes,   \* types a runtime may give its call argument
    Versions,       \* metadata versions a node may serve
    Chains          \* chain names a node may report

AM == INSTANCE ArgumentMeta

ASSUME Known \subseteq Names

\* The versions and chains the code accepts.
SupportedVersions == {"V12", "V13"}
KnownChains == {"polkadot", "kusama"}

\* What a node serves: the metadata version, its argument types, whether
\* the Babe, Staking and System modules and the constants read from them
\* are all there (or a module, or a constant, is missing), and the chain.
Runtimes == [version: Versions, event: EventArgTypes, call: CallArgTypes,
             config: {"complete", "noModule", "noConstant"}, chain: Chains]

VARIABLES
    node,       \* the runtime of the node the client connects to
    pc,         \* where SubstrateClient::new is
    metadata,   \* the converted metadata: the parsed argument types
    error       \* the error construction ended with, or "none"

vars == <<node, pc, metadata, error>>

NoMetadata == [event |-> <<>>, call |-> <<>>]

-----------------------------------------------------------------------------
(* Metadata::from.                                                         *)

\* crate::argument::Argument::decode of a primitive from an empty slice
\* fails with UnknownPrimitiveType exactly for the names outside the
\* decoder's table.
UnknownPrimitiveType(name) == name \notin {<<n>> : n \in Known}

\* check_event_primitive_argument_support: the primitive event arguments
\* (only those at the top level of an argument) must all be known.
CheckEventPrimitiveArgumentSupport(events) ==
    \A i \in DOMAIN events :
        events[i].kind = "Primitive" => ~UnknownPrimitiveType(events[i].name)

\* Metadata::module: the module of that name, or ModuleNotFound.
ModuleFound(r) == r.config # "noModule"

\* ModuleMetadata::constant: the constant of that name, or ConstantNotFound.
ConstantFound(r) == r.config = "complete"

\* convert_event: parse the type string of each event argument; the first
\* parse error is the error of the event.
ConvertEvent(t) == AM!FromStr(AM!TypeName(t))

\* v13::convert_event is v12's over the v13 types.
ConvertEventV13(t) == ConvertEvent(t)

\* convert_modules: parse the type of every call argument and every event
\* argument (convert_event); any parse error is the error of the whole.
ConvertModules(r) ==
    [event |-> <<ConvertEvent(r.event)>>,
     call  |-> <<AM!FromStr(AM!TypeName(r.call))>>]

\* v13::convert_modules is v12's line for line, over the v13 types of
\* frame_metadata, so it converts the arguments the same way.
ConvertModulesV13(r) ==
    [event |-> <<ConvertEventV13(r.event)>>,
     call  |-> <<AM!FromStr(AM!TypeName(r.call))>>]

\* TryFrom<RuntimeMetadataPrefixed>: the converter of the version's module.
Converted(r) ==
    IF r.version = "V13" THEN ConvertModulesV13(r) ELSE ConvertModules(r)

\* Mutant of FromError: argument parse errors are skipped, not returned.
FromErrorSkipsArgs(r) ==
    LET m == Converted(r)
    IN  CASE r.version \notin SupportedVersions           -> "InvalidVersion"
          [] ~ModuleFound(r)                              -> "ModuleNotFound"
          [] ~ConstantFound(r)                            -> "ConstantNotFound"
          [] ~CheckEventPrimitiveArgumentSupport(m.event) -> "UnknownPrimitiveType"
          [] OTHER                                        -> "none"

\* The first error Metadata::from meets, in the order of the code: the
\* version (TryFrom), the argument types (convert_modules), the module and
\* constant lookups of the runtime config, the primitive-support check.
FromError(r) ==
    LET m == Converted(r)
    IN  CASE r.version \notin SupportedVersions           -> "InvalidVersion"
          [] AM!InvalidEventArg \in Range(m.event) \cup Range(m.call)
                                                          -> "InvalidEventArg"
          [] ~ModuleFound(r)                              -> "ModuleNotFound"
          [] ~ConstantFound(r)                            -> "ConstantNotFound"
          [] ~CheckEventPrimitiveArgumentSupport(m.event) -> "UnknownPrimitiveType"
          [] OTHER                                        -> "none"

-----------------------------------------------------------------------------
(* SubstrateClient::new.                                                   *)

\* WsClientBuilder::build: the connection succeeds or fails.
Connect ==
    /\ pc = "connect"
    /\ \/ pc' = "metadata" /\ UNCHANGED error
       \/ pc' = "failed" /\ error' = "ConnectionError"
    /\ UNCHANGED <<node, metadata>>

\* state_getMetadata and Metadata::from (no await inside it).  A failed
\* request, and metadata whose hex or SCALE prefix does not decode, end
\* construction with an error the properties do not tell apart.
GetMetadata ==
    /\ pc = "metadata"
    /\ \/ /\ FromError(node) = "none"
          /\ metadata' = Converted(node)
          /\ pc' = "properties"
          /\ UNCHANGED error
       \/ /\ FromError(node) # "none"
          /\ pc' = "failed"
          /\ error' = FromError(node)
          /\ UNCHANGED metadata
       \/ pc' = "failed" /\ error' = "RequestError" /\ UNCHANGED metadata
    /\ UNCHANGED node

\* system_properties.
GetSystemProperties ==
    /\ pc = "properties"
    /\ \/ pc' = "chain" /\ UNCHANGED error
       \/ pc' = "failed" /\ error' = "RequestError"
    /\ UNCHANGED <<node, metadata>>

\* system_chain and Chain::from_str.
GetChain ==
    /\ pc = "chain"
    /\ \/ /\ node.chain \in KnownChains
          /\ pc' = "ready"
          /\ UNCHANGED error
       \/ /\ node.chain \notin KnownChains
          /\ pc' = "failed"
          /\ error' = "UnknownChain"
       \/ pc' = "failed" /\ error' = "RequestError"
    /\ UNCHANGED <<node, metadata>>

Init ==
    /\ node \in Runtimes
    /\ pc = "connect"
    /\ metadata = NoMetadata
    /\ error = "none"

Next == Connect \/ GetMetadata \/ GetSystemProperties \/ GetChain

Spec == Init /\ [][Next]_vars

-----------------------------------------------------------------------------
(* Properties.                                                             *)

TypeOK ==
    /\ node \in Runtimes
    /\ pc \in {"connect", "metadata", "properties", "chain", "ready", "failed"}
    /\ error \in {"none", "ConnectionError", "RequestError", "InvalidVersion",
                  "InvalidEventArg", "ModuleNotFound", "ConstantNotFound",
                  "UnknownPrimitiveType",
                  "UnknownChain"}
    /\ (pc = "failed") = (error # "none")
    /\ \A m \in Range(metadata.event) \cup Range(metadata.call) :
          m.kind \in {"Primitive", "Vec", "Option", "Tuple"}

\* Spec 4.1: the parser recovers the argument types a runtime declares.
\* Whenever FromStr has turned the metadata's type strings into argument
\* metadata, every argument is the type the runtime spelled.
ParsedAsDeclared ==
    metadata # NoMetadata =>
        /\ metadata.event = <<node.event>>
        /\ metadata.call = <<node.call>>

\* FromStr rejects a type only when a tuple sits inside a tuple (split(',')
\* cuts the inner tuple apart): construction fails with InvalidEventArg
\* only for such a runtime, and every other runtime gets past conversion.
RejectsOnlyNestedTuples ==
    error = "InvalidEventArg" =>
        AM!TupleInTuple(node.event) \/ AM!TupleInTuple(node.call)

\* Spec 4.1 and 8.2: the primitive-support check covers every primitive in
\* any event argument, so a client that is ready can decode every
\* primitive its event arguments contain.
EventPrimitivesSupported ==
    pc = "ready" =>
        \A p \in AM!PrimitivesIn(metadata.event[1]) : ~UnknownPrimitiveType(p)

\* Spec 8.1: parse(to_string(m)) = m for every argument of the runtime.
MetadataRoundTrip ==
    metadata # NoMetadata =>
        AM!FromStr(AM!Display(metadata.event[1])) = metadata.event[1]

=============================================================================
