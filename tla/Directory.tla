------------------------------ MODULE Directory ------------------------------
(***************************************************************************)
(* What the coordinator's registry and index promise together, with none of*)
(* the bookkeeping: a set of members, a set of adverts (member, object,    *)
(* version), and one description per object, the last one advertised.  An  *)
(* object is known exactly as long as it has an advert, and only members   *)
(* advertise.  Coordinator.tla keeps the same facts in four dictionaries   *)
(* (coordinator/store.py) and is shown to implement this specification.    *)
(***************************************************************************)
EXTENDS Naturals, Functions

CONSTANTS Peers, Catalogue

VARIABLES members, adverts, current

dirVars == <<members, adverts, current>>

\* Exactly one member, object and version per advert.
Advert(p, m) == [peer |-> p, object |-> m.object, version |-> m.version]

Known(as) == {a.object : a \in as}

DirInit ==
    /\ members = {}
    /\ adverts = {}
    /\ current = [o \in {} |-> o]

Join(p) ==
    /\ p \notin members
    /\ members' = members \cup {p}
    /\ UNCHANGED <<adverts, current>>

\* A member describes an object it holds; its earlier advert is replaced.  A
\* description that contradicts the current one of the same version is refused.
Advertise(p, m) ==
    /\ p \in members
    /\ m.object \in DOMAIN current /\ current[m.object].version = m.version
         => /\ current[m.object].content = m.content
            /\ current[m.object].cacheability = m.cacheability
    /\ adverts' = {a \in adverts : ~(a.peer = p /\ a.object = m.object)}
                    \cup {Advert(p, m)}
    /\ current' = [o \in DOMAIN current \cup {m.object} |->
                      IF o = m.object THEN m ELSE current[o]]
    /\ UNCHANGED members

\* Members leave with all their adverts, objects are dropped with all theirs,
\* and an object left without adverts is forgotten.
Withdraw(gone, objects) ==
    /\ members' = members \ gone
    /\ adverts' = {a \in adverts : a.peer \notin gone /\ a.object \notin objects}
    /\ current' = Restrict(current, DOMAIN current \cap Known(adverts'))

DirNext ==
    \/ \E p \in Peers : Join(p)
    \/ \E p \in Peers, m \in Catalogue : Advertise(p, m)
    \/ \E gone \in SUBSET members, objects \in SUBSET DOMAIN current :
          Withdraw(gone, objects)

DirSpec == DirInit /\ [][DirNext]_dirVars
=============================================================================
