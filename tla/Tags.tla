-------------------------------- MODULE Tags --------------------------------
(***************************************************************************)
(* The tag generator of DogStatsD (dogstatsd/common/tags.rs).  It has a    *)
(* random number generator of its own, which it seeds anew each time       *)
(* num_tagsets have been made, so as to make the same ones again without   *)
(* keeping them.  A tag is a key and a value, slices of a pool of          *)
(* characters known by their offsets.                                      *)
(***************************************************************************)
EXTENDS Naturals, Sequences, SequencesExt

CONSTANTS
  NumTagsets,  \* num_tagsets
  Period,      \* bound: the random numbers of a seed before they repeat
  MaxTagsets   \* bound: calls of generate

VARIABLES
  seed,              \* the random numbers that follow from the seed
  unique_only,       \* unique_tag_probability is 1.0
  internal_rng,      \* how many of them have been used
  tagsets_produced,
  unique_tags,       \* the handles of the tags made so far
  tagsets,           \* auxiliary: the tagsets generated, in order
  asked              \* auxiliary: an existing tag has been asked for

Rolls == 0..2

(* Generator::new, with a configuration that it accepts.                   *)
Init(runs) ==
  /\ seed \in IF runs THEN [0..(Period - 1) -> Rolls] ELSE {<<>>}
  /\ unique_only \in IF runs THEN BOOLEAN ELSE {TRUE}
  /\ internal_rng = 0
  /\ tagsets_produced = 0
  /\ unique_tags = <<>>
  /\ tagsets = <<>>
  /\ asked = FALSE
-----------------------------------------------------------------------------
Roll(n) == seed[n % Period]

(* choose_existing_prob > unique_tag_probability.                          *)
AsksForExisting(n) == ~unique_only /\ Roll(n) = 2

(* One round of the loop over tags_count: an existing tag if one is asked  *)
(* for and there is any, else a new one, which is remembered.              *)
AddTag(made, round) ==
  LET n == made.rng
      asks == AsksForExisting(n)
      existing == made.unique[(Roll(n + 1) % Len(made.unique)) + 1]
      new == [key |-> Roll(n + 1), value |-> Roll(n + 2)]
  IN  IF asks /\ made.unique # <<>>
      THEN [made EXCEPT !.rng = @ + 2, !.tagset = Append(@, existing),
                        !.asked = TRUE]
      ELSE [made EXCEPT !.rng = @ + 3, !.tagset = Append(@, new),
                        !.unique = Append(@, new), !.asked = @ \/ asks]

(* Variant: one tagset too many before the generator is seeded again.      *)
LoopsAroundLate == tagsets_produced > NumTagsets

(* num_tagsets have been produced.                                         *)
LoopsAround == tagsets_produced >= NumTagsets

(* Generator::generate.  The tags made before are kept when the generator  *)
(* is seeded again.                                                        *)
Generate ==
  /\ Len(tagsets) < MaxTagsets
  /\ LET start == IF LoopsAround THEN 0 ELSE internal_rng
         tags_count == Roll(start)
         made == FoldLeft(AddTag,
                   [rng |-> start + 1, unique |-> unique_tags, tagset |-> <<>>,
                    asked |-> asked],
                   [i \in 1..tags_count |-> i])
     IN  /\ internal_rng' = made.rng
         /\ unique_tags' = made.unique
         /\ tagsets' = Append(tagsets, made.tagset)
         /\ asked' = made.asked
  /\ tagsets_produced' = IF LoopsAround THEN 1 ELSE tagsets_produced + 1
  /\ UNCHANGED <<seed, unique_only>>
-----------------------------------------------------------------------------
(* "Note that after num_tagsets have been produced, the tagsets will loop  *)
(* and produce identical tagsets" (generate): they do as long as no random *)
(* number has asked for an existing tag.                                   *)
TagsetsLoop ==
  ~asked => \A i \in DOMAIN tagsets :
              i > NumTagsets => tagsets[i] = tagsets[i - NumTagsets]
=============================================================================
