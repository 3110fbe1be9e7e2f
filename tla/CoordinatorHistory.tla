------------------------- MODULE CoordinatorHistory -------------------------
(***************************************************************************)
(* Coordinator with a history variable, for a property that relates what   *)
(* the coordinator lists now to what it accepted earlier and keeps no      *)
(* trace of.  It records, and constrains nothing.                          *)
(***************************************************************************)
EXTENDS Coordinator

VARIABLES
    claims       \* <<p, o>> -> the metadata p last published of o, while p is
                 \* listed and nobody has published another version of o since

historyVars == <<vars, claims>>

StillListed ==
    {c \in DOMAIN claims : c[2] \in DOMAIN index' /\ c[1] \in index'[c[2]]}

NotSuperseded(m) ==
    {c \in DOMAIN claims : c[2] = m.object => claims[c].version = m.version}

HistoryInit ==
    /\ Init
    /\ claims = Empty

HistoryNext ==
    \/ \E p \in Peers, m \in Catalogue :
          /\ Publish(p, m)
          /\ claims' = Bind(Restrict(claims, NotSuperseded(m)), <<p, m.object>>, m)
    \/ /\ OtherStep
       /\ ~Restart
       /\ claims' = Restrict(claims, StillListed)
    \/ /\ Restart
       /\ claims' = Empty

HistorySpec == HistoryInit /\ [][HistoryNext]_historyVars

-----------------------------------------------------------------------------
\* POST_REPORT_HARDENING_ROADMAP.md:237: "Reject conflicting checksum/size/
\* version for same object version".  Whatever is published, evicted, expired or
\* invalidated in between, two listed providers of one version of an object were
\* accepted with the same content, as long as no other version was published
\* meanwhile: only the current version is compared (store.py:85-97).
OneContentPerVersion ==
    \A c, d \in DOMAIN claims :
        c[2] = d[2] => claims[c].content = claims[d].content
=============================================================================
