------------------------------ MODULE Payloads ------------------------------
(***************************************************************************)
(* The two parts of lading_payload that keep a state from call to call:    *)
(* the block cache with the serializers that fill it, and the generator of *)
(* the tags DogStatsD messages carry.                                      *)
(***************************************************************************)
EXTENDS Payload

CONSTANTS NumTagsets, Period, MaxTagsets

ASSUME PayloadsAssumption ==
  NumTagsets \in Nat /\ Period \in Nat \ {0} /\ MaxTagsets \in Nat

VARIABLES
  part,  \* the part that is looked at, "cache" or "tags"
  seed, unique_only, internal_rng, tagsets_produced, unique_tags, tagsets, asked

Tags == INSTANCE Tags

tagVars == <<seed, unique_only, internal_rng, tagsets_produced, unique_tags,
             tagsets, asked>>
allVars == <<vars, part, tagVars>>

AllInit ==
  /\ part \in {"cache", "tags"}
  /\ Init
  /\ part = "tags" =>
       /\ kind = CHOOSE k \in Kinds : TRUE
       /\ <<max_block_size, total_bytes>> = CHOOSE l \in LimitsOf[kind] : TRUE
       /\ dog = CHOOSE d \in DogConfs : TRUE
  /\ Tags!Init(part = "tags")

AllNext ==
  \/ part = "cache" /\ Next /\ UNCHANGED <<part, tagVars>>
  \/ part = "tags" /\ Tags!Generate /\ UNCHANGED <<part, vars>>
  \/ part = "tags" /\ Len(tagsets) = MaxTagsets /\ UNCHANGED allVars

(* Both run on the thread of their caller, and nothing blocks them.        *)
AllSpec == AllInit /\ [][AllNext]_allVars /\ WF_allVars(AllNext)
-----------------------------------------------------------------------------
(* Tagsets repeat after num_tagsets of them, as long as no random number   *)
(* has asked for an existing tag (Generator::generate in tags.rs).         *)
TagsetsLoop == Tags!TagsetsLoop
=============================================================================
