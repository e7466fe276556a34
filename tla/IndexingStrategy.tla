--------------------------- MODULE IndexingStrategy ---------------------------
(***************************************************************************)
(* Which edits the processor indexes in Elasticsearch                      *)
(* (src/internal/storage/storage_strategy.go, ShouldIndex).  The status of *)
(* a page is a record of what Redis holds about it:                        *)
(*   rank     its trending rank, 0 when it has none                        *)
(*   hot      it is a hot page                                             *)
(*   edits    its recent edits, known for hot pages                        *)
(*   spiking  it has a spike marker                                        *)
(*   ratio    the spike ratio in that marker                               *)
(*   war      it has an edit-war marker                                    *)
(***************************************************************************)
EXTENDS Naturals

CONSTANTS TrendingTopN,     \* config: the ranks that count as trending
          SpikeRatioMin,    \* config: the ratio that counts as a spike
          EditWarEnabled,   \* config
          Sampling          \* config: sample_rate is positive

ASSUME StrategyAssumption ==
    /\ TrendingTopN \in Nat
    /\ SpikeRatioMin \in Nat
    /\ EditWarEnabled \in BOOLEAN
    /\ Sampling \in BOOLEAN

Reads == {"rank", "hot", "edits", "spiking", "ratio", "war"}

Statuses == [rank : Nat, hot : BOOLEAN, edits : Nat, spiking : BOOLEAN,
             ratio : Nat, war : BOOLEAN]

\* Mutant: a failed read of the hot page status counts as hot.
PageContextOpen(page, got) ==
    LET spiking == "spiking" \in got /\ page.spiking
    IN [rank |-> IF "rank" \in got THEN page.rank ELSE 0,
        hot |-> "hot" \in got => page.hot,
        edits |-> IF page.hot /\ "edits" \in got THEN page.edits ELSE 0,
        spiking |-> spiking,
        ratio |-> IF spiking /\ "ratio" \in got THEN page.ratio ELSE 0,
        war |-> "war" \in got /\ page.war]

\* getPageContext when the reads in got succeed: a failed read is logged and
\* leaves its field zero, and two reads follow from what earlier ones said.
PageContext(page, got) ==
    LET hot == "hot" \in got /\ page.hot
        spiking == "spiking" \in got /\ page.spiking
    IN [rank |-> IF "rank" \in got THEN page.rank ELSE 0,
        hot |-> hot,
        edits |-> IF hot /\ "edits" \in got THEN page.edits ELSE 0,
        spiking |-> spiking,
        ratio |-> IF spiking /\ "ratio" \in got THEN page.ratio ELSE 0,
        war |-> "war" \in got /\ page.war]

Significant(context) ==
    \/ context.rank > 0 /\ context.rank <= TrendingTopN
    \/ context.spiking /\ context.ratio >= SpikeRatioMin
    \/ EditWarEnabled /\ context.war
    \/ context.hot
    \/ context.edits >= 2

\* The decisions ShouldIndex may come to: which reads fail and which edits are
\* sampled is not up to it.
MayIndex(watched, page) ==
    \/ watched
    \/ Sampling
    \/ \E got \in SUBSET Reads : Significant(PageContext(page, got))

MaySkip(watched, page) ==
    /\ ~ watched
    /\ \E got \in SUBSET Reads : ~ Significant(PageContext(page, got))

=============================================================================
