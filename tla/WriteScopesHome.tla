--------------------------- MODULE WriteScopesHome ---------------------------
(***************************************************************************)
(* Nobody acts where a populated containment does: the proofs of           *)
(* MutationStaysHome and GainsQuietFiles of WriteScopes. They hold when a  *)
(* containment that is told to terminate does, and when the database       *)
(* writes of finish_transfer and of abandoning a transfer succeed; a       *)
(* failure of one of those leaves a populated containment behind a         *)
(* transfer that was given up.                                             *)
(***************************************************************************)
EXTENDS WriteScopesProofs

\* A transfer that was begun and has no child yet.
Pending(t) == xfer[t].phase \in {"prepared", "parent_excluded"}

ScopesNamed == \A t \in Transfers : xfer[t].phase # "none" => xfer[t].scope \in Scopes

\* A lease has at most one transfer pending, is transferring meanwhile, and has
\* handed out nothing that overlaps the pending scope.
InTransit ==
  \A t \in Transfers : Pending(t) =>
    /\ lease[xfer[t].parent].state = "transferring"
    /\ \A u \in Transfers \ {t} : xfer[u].parent = xfer[t].parent =>
         ~Pending(u) /\ (Denied(u) => xfer[t].scope \cap xfer[u].scope = {})

\* A live token is one of a live lease, and never of one that is about to be
\* excluded.
TokensUsable ==
  /\ \A k \in tokens : Live(k[1])
  /\ \A t \in Transfers : xfer[t].phase = "prepared" =>
       \A k \in tokens : k[1] # xfer[t].parent

\* A populated containment is of a pending transfer or of a live child.
PopulatedOpen ==
  \A t \in Transfers : Populated(t) => Pending(t) \/ Live(t)

\* What the call that has `serial` has seen of the containment and the parent.
JobHome ==
  LET t == job.t
      l == xfer[t].parent
  IN /\ job.pc \in {"drop", "abandon"} => Pending(t)
     /\ job.pc \in {"drop", "abandon", "unwind", "ret_permit", "ret_child", "ret_parent",
                    "ret_lease", "ret_phase"} => ~Populated(t)
     /\ job.pc = "unwind" => \A u \in Transfers : xfer[u].parent = l => ~Pending(u)
     /\ job.pc \in {"ret_phase", "commit"} /\ ~job.pass.on
          => lease[l].state \in {"active", "delegated"}
     /\ job.pc = "recover" => job.pass.on

Rooms == ScopesNamed /\ InTransit /\ PopulatedOpen
TransitInv == Rooms /\ TokensUsable /\ JobHome

\* The lease and its ancestors, as what every set of leases that contains it and
\* is closed under f's parents contains.
Closed(f, B) == \A k \in B : k # Root => f[k].parent \in B
Line(f, l) == {k \in Leases : \A B \in SUBSET Leases : (l \in B /\ Closed(f, B)) => k \in B}

\* A live lease inside the scope of a live child descends from that child.
Nested ==
  \A k \in Leases, t \in Transfers :
    (Live(k) /\ Live(t) /\ lease[k].scope \subseteq lease[t].scope) => t \in Line(lease, k)

\* A mutation's permit is held from its acquisition to its release.
PermitHeld ==
  \A m \in Mutators : mut[m].pc # "idle" =>
    /\ [kind |-> "mutation", id |-> m, root |-> mut[m].target] \in permits
    /\ Exists(mut[m].lease) /\ mut[m].target \in Targets

\* Behind the drain barrier no mutation permit overlaps the sub-scope.
Drained ==
  job.pc \in {"permit", "create"} =>
    \A p \in permits : p.kind = "mutation" => p.root \cap xfer[job.t].scope = {}

\* MutationStaysHome, with the ancestors as a Line.
StaysHome ==
  \A m \in Mutators, t \in Transfers :
    (/\ mut[m].pc = "checked" /\ Populated(t)
     /\ t \notin Line(lease, mut[m].lease)
     /\ ~(xfer[t].scope \subseteq mut[m].target) \/ xfer[t].scope = mut[m].target)
    => mut[m].target \cap xfer[t].scope = {}

HomeInv == /\ ScopeInv /\ PermitsCover /\ TransitInv /\ Nested
           /\ PermitHeld /\ Drained /\ StaysHome

-----------------------------------------------------------------------------
(* Ancestors *)

\* A line contains its lease and is closed under parents.
LEMMA LineClosed ==
  ASSUME NEW f, \A k \in Leases : f[k].parent \in Leases, NEW l \in Leases
  PROVE  l \in Line(f, l) /\ Line(f, l) \subseteq Leases /\ Closed(f, Line(f, l))
<1>1. \A k \in Line(f, l) : k # Root => f[k].parent \in Line(f, l)
  <2> SUFFICES ASSUME NEW k \in Line(f, l), k # Root, NEW B \in SUBSET Leases,
                      l \in B, Closed(f, B)
               PROVE  f[k].parent \in B
    BY DEF Line
  <2>1. k \in B
    BY DEF Line
  <2> QED BY <2>1 DEF Closed
<1> QED BY <1>1 DEF Line, Closed

\* It is the least such set.
LEMMA LineLeast ==
  ASSUME NEW f, NEW l \in Leases, NEW B \in SUBSET Leases, l \in B, Closed(f, B)
  PROVE  Line(f, l) \subseteq B
BY DEF Line

\* What lease_ancestry chooses is the line.
LEMMA AncestryIsLine ==
  ASSUME ScopeInv, NEW l \in Leases
  PROVE  Ancestry(l) = Line(lease, l)
<1> DEFINE Q(A) == /\ l \in A
                   /\ \A k \in A : k # Root => lease[k].parent \in A
                   /\ \A B \in SUBSET A :
                        (l \in B /\ \A k \in B : k # Root => lease[k].parent \in B) => B = A
<1>1. \A k \in Leases : lease[k].parent \in Leases
  BY Facts DEF Tables, LeaseRecords
<1>2. l \in Line(lease, l) /\ Line(lease, l) \in SUBSET Leases /\ Closed(lease, Line(lease, l))
  BY <1>1, LineClosed
<1>3. ASSUME NEW B \in SUBSET Line(lease, l), l \in B, Closed(lease, B)
      PROVE  B = Line(lease, l)
  BY <1>2, <1>3, LineLeast
<1>4. Q(Line(lease, l))
  BY <1>2, <1>3 DEF Closed
<1>5. ASSUME NEW A \in SUBSET Leases, Q(A) PROVE A = Line(lease, l)
  <2>1. Line(lease, l) \subseteq A
    BY <1>5, LineLeast DEF Closed
  <2> QED BY <1>2, <1>5, <2>1 DEF Closed
<1>6. Ancestry(l) = CHOOSE A \in SUBSET Leases : Q(A)
  BY DEF Ancestry
<1> HIDE DEF Q
<1>7. (CHOOSE A \in SUBSET Leases : Q(A)) \in SUBSET Leases
      /\ Q(CHOOSE A \in SUBSET Leases : Q(A))
  BY <1>2, <1>4
<1> QED BY <1>5, <1>6, <1>7

\* The line of a lease depends only on the parents in it.
LEMMA LineStays ==
  ASSUME NEW f, NEW g, \A k \in Leases : f[k].parent \in Leases /\ g[k].parent \in Leases,
         NEW E \in SUBSET Leases, Closed(f, E), NEW l \in E,
         \A k \in E \ {Root} : g[k].parent = f[k].parent
  PROVE  Line(g, l) = Line(f, l)
<1>1. /\ l \in Line(f, l) /\ Line(f, l) \in SUBSET Leases /\ Closed(f, Line(f, l))
      /\ l \in Line(g, l) /\ Line(g, l) \in SUBSET Leases /\ Closed(g, Line(g, l))
  BY LineClosed
<1>2. Line(f, l) \subseteq E
  BY LineLeast
<1>3. Closed(g, Line(f, l))
  BY <1>1, <1>2 DEF Closed
<1>4. Line(g, l) \subseteq Line(f, l)
  BY <1>1, <1>3, LineLeast
<1>5. Closed(f, Line(g, l))
  BY <1>1, <1>2, <1>4 DEF Closed
<1>6. Line(f, l) \subseteq Line(g, l)
  BY <1>1, <1>5, LineLeast
<1> QED BY <1>4, <1>6
\* The same of every lease, in every state and in the next one.
LEMMA AncestryAll == ScopeInv => \A l \in Leases : Ancestry(l) = Line(lease, l)
BY AncestryIsLine

\* After a step too.
LEMMA AncestryNext == ScopeInv' => (\A l \in Leases : Ancestry(l) = Line(lease, l))'
BY AncestryAll, PTL
-----------------------------------------------------------------------------
(* Outside a populated containment *)

\* Where a live lease meets a populated containment that is not of its own line,
\* the scope of the containment lies below what the lease has handed out; only
\* the parent of a prepared transfer has not been excluded yet.
LEMMA Outside ==
  ASSUME ScopeInv, InTransit, PopulatedOpen, Nested,
         NEW t \in Transfers, Populated(t),
         NEW l \in Leases, Live(l), t \notin Line(lease, l),
         xfer[t].phase = "prepared" => l # xfer[t].parent,
         lease[l].scope \cap xfer[t].scope # {}
  PROVE  \E E \in exclusions(l) : xfer[t].scope \subseteq E
<1> USE Facts
<1>0. /\ \A a, b \in Leases : (a # b /\ Live(a) /\ Live(b)) =>
           lease[a].scope \cap lease[b].scope = {} \/ Below(b, a) \/ Below(a, b)
      /\ l \in Line(lease, l)
  <2>1. \A k \in Leases : lease[k].parent \in Leases
    BY DEF Tables, LeaseRecords
  <2> QED BY <2>1, LineClosed DEF TreeInv, LiveApart
<1>1. ASSUME NEW k \in Leases, Below(k, l) PROVE \E E \in exclusions(l) : lease[k].scope \subseteq E
  <2>1. PICK u \in Transfers : /\ Live(u) /\ lease[u].parent = l
                              /\ lease[k].scope \subseteq lease[u].scope
    BY <1>1 DEF Below
  <2>2. xfer[u].scope \in exclusions(l) /\ xfer[u].scope = lease[u].scope
    BY <2>1, LiveScopes DEF exclusions, Denied
  <2> QED BY <2>1, <2>2
<1>2. CASE Live(t)
  <2>1. xfer[t].scope = lease[t].scope /\ t \in Leases /\ t # l
    BY <1>0, <1>2, LiveScopes
  <2>2. ~Below(l, t)
    <3> SUFFICES ASSUME Below(l, t) PROVE FALSE
      OBVIOUS
    <3>1. PICK u \in Transfers : /\ Live(u) /\ lease[u].parent = t
                                /\ lease[l].scope \subseteq lease[u].scope
      BY DEF Below
    <3>2. lease[l].scope \subseteq lease[t].scope
      BY <3>1, LiveScopes
    <3> QED BY <1>2, <3>2 DEF Nested
  <2>3. Below(t, l)
    BY <1>0, <1>2, <2>1, <2>2
  <2> QED BY <1>1, <2>1, <2>3
<1>3. CASE Pending(t)
  <2>1. PICK p \in Leases : p = xfer[t].parent
    OBVIOUS
  <2>2. /\ Live(p) /\ xfer[t].scope \subseteq lease[p].scope
        /\ \A u \in Transfers \ {t} : (xfer[u].parent = p /\ Denied(u)) =>
             xfer[t].scope \cap xfer[u].scope = {}
        /\ ~Live(t)
    BY <1>3, <2>1 DEF Pending, InTransit, Live, TreeInv, ScopesNest, RowsMatch, Row
  <2>3. CASE p = l
    <3>1. xfer[t].phase = "parent_excluded"
      BY <1>3, <2>1, <2>3 DEF Pending
    <3>2. xfer[t].scope \in exclusions(l)
      BY <2>1, <2>3, <3>1 DEF exclusions, parent_denied_in_subscope
    <3> QED BY <3>2
  <2>4. CASE p # l
    <3>1. ~Below(l, p)
      <4> SUFFICES ASSUME Below(l, p) PROVE FALSE
        OBVIOUS
      <4>1. PICK u \in Transfers : /\ Live(u) /\ lease[u].parent = p
                                  /\ lease[l].scope \subseteq lease[u].scope
        BY DEF Below
      <4>2. xfer[t].scope \cap lease[u].scope = {}
        BY <2>2, <4>1, LiveScopes
      <4> QED BY <4>1, <4>2
    <3>2. Below(p, l)
      BY <1>0, <2>2, <2>4, <3>1
    <3> QED BY <1>1, <2>2, <3>2
  <2> QED BY <2>3, <2>4
<1> QED BY <1>2, <1>3 DEF PopulatedOpen

\* What a lease can act on is apart from every populated containment that is not
\* of its own line.
LEMMA UsableIsQuiet ==
  ASSUME ScopeInv, InTransit, PopulatedOpen, Nested,
         NEW t \in Transfers, Populated(t), NEW l \in Leases, t \notin Line(lease, l)
  PROVE  Usable(l) \cap xfer[t].scope = {}
<1> SUFFICES ASSUME NEW x, x \in Usable(l), x \in xfer[t].scope PROVE FALSE
  OBVIOUS
<1>1. /\ lease[l].state \in {"active", "delegated"} /\ x \in effective_authority(l)
  BY DEF Usable
<1>2. /\ Live(l) /\ x \in lease[l].scope /\ \A E \in exclusions(l) : x \notin E
  BY <1>1 DEF Live, effective_authority
<1>3. xfer[t].phase = "prepared" => l # xfer[t].parent
  BY <1>1 DEF InTransit, Pending
<1>4. \E E \in exclusions(l) : xfer[t].scope \subseteq E
  BY <1>2, <1>3, Outside
<1> QED BY <1>2, <1>4
-----------------------------------------------------------------------------
(* What a step changes *)

\* Leases keep parent and scope; none begins, and one may be released.
LeasesMove == \A k \in Leases : /\ lease'[k].parent = lease[k].parent
                                /\ lease'[k].scope = lease[k].scope
                                /\ Exists(k)' = Exists(k)
                                /\ Live(k)' => Live(k)

\* A new state and generation of a live lease.
LEMMA MoveOne ==
  ASSUME ScopeInv, NEW l \in Leases, NEW s \in States \ {"none"}, Live(l),
         cas_lease(l, s, lease[l].gen + 1)
  PROVE  /\ LeasesMove /\ lease'[l].state = s
         /\ \A k \in Leases \ {l} : lease'[k] = lease[k]
         /\ \A k \in tokens' : k \in tokens /\ k[1] # l
<1>1. /\ lease'[l].state = s /\ lease'[l].parent = lease[l].parent
      /\ lease'[l].scope = lease[l].scope
      /\ \A k \in Leases \ {l} : lease'[k] = lease[k]
  BY CasLease
<1>2. \A k \in tokens' : k \in tokens /\ k[1] # l
  BY Facts DEF cas_lease, invalidate_older_tokens, TokensFit
<1> QED BY <1>1, <1>2 DEF LeasesMove, Live, Exists

\* The release of a child.
LEMMA ReleaseOne ==
  ASSUME ScopeInv, NEW t \in Transfers, can_transition_to(t, "released"),
         lease' = [lease EXCEPT ![t].state = "released", ![t].gen = @ + 1]
  PROVE  /\ LeasesMove /\ lease'[t].state = "released" /\ Live(t)
         /\ lease[t].state # "transferring"
         /\ \A k \in Leases \ {t} : lease'[k] = lease[k]
<1> USE Facts
<1>1. /\ Live(t) /\ lease[t].state # "transferring" /\ t \in Leases
      /\ lease \in [Leases -> LeaseRecords]
  BY DEF can_transition_to, LegalTransitions, Live, Tables
<1>2. PICK g \in Nat : g = lease[t].gen + 1
  BY <1>1
<1>3. lease' = [lease EXCEPT ![t].state = "released", ![t].gen = g]
  BY <1>1, <1>2 DEF LeaseRecords
<1>4. /\ lease'[t].state = "released"
      /\ lease'[t].parent = lease[t].parent /\ lease'[t].scope = lease[t].scope
      /\ \A k \in Leases \ {t} : lease'[k] = lease[k]
  BY <1>1, <1>3, LeaseUpdate DEF States
<1> QED BY <1>1, <1>4 DEF LeasesMove, Live, Exists

\* The parent goes to Returning.
LEMMA ReturnOne ==
  ASSUME ScopeInv, NEW l \in Leases, can_transition_to(l, "returning"),
         lease' = [lease EXCEPT ![l].state = "returning"]
  PROVE  /\ LeasesMove /\ lease'[l].state = "returning" /\ lease[l].state = "delegated"
         /\ \A k \in Leases \ {l} : lease'[k] = lease[k]
<1> USE Facts
<1>1. lease[l].state = "delegated" /\ lease \in [Leases -> LeaseRecords]
  BY DEF can_transition_to, LegalTransitions, Tables
<1>2. /\ lease'[l].state = "returning"
      /\ lease'[l].parent = lease[l].parent /\ lease'[l].scope = lease[l].scope
      /\ \A k \in Leases \ {l} : lease'[k] = lease[k]
  BY <1>1, StateUpdate DEF States
<1> QED BY <1>1, <1>2 DEF LeasesMove, Live, Exists

\* The activation: one lease begins, its parent is delegated, and its transfer
\* moves on.
LEMMA ActivateOne ==
  ASSUME ScopeInv, ActivateChild, "finish" \notin Faults,
         NEW t \in Transfers, t = job.t, NEW l \in Leases, l = xfer[t].parent
  PROVE  /\ t \in Leases /\ t # Root /\ l # t
         /\ xfer[t].phase = "parent_excluded" /\ lease[l].state = "transferring"
         /\ lease[t].state = "none"
         /\ lease'[t].state = "active" /\ lease'[t].parent = l
         /\ lease'[t].scope = xfer[t].scope
         /\ lease'[l].state = "delegated" /\ lease'[l].parent = lease[l].parent
         /\ lease'[l].scope = lease[l].scope
         /\ \A k \in Leases \ {l, t} : lease'[k] = lease[k]
         /\ xfer'[t].phase = "child_activated" /\ xfer'[t].parent = l
         /\ xfer'[t].scope = xfer[t].scope
         /\ \A u \in Transfers \ {t} : xfer'[u] = xfer[u]
         /\ tokens' = tokens \cup {<<t, lease[l].gen + 1>>}
         /\ Return /\ UNCHANGED <<permits, box, mut>>
<1> USE Facts
<1>0. /\ t \in Leases /\ t # Root /\ l # t
      /\ xfer[t].phase = "parent_excluded" /\ lease[l].state = "transferring"
      /\ lease[t].state = "none"
  <2>1. xfer[t].phase = "parent_excluded" /\ lease[l].state = "transferring"
    BY DEF ActivateChild, JobAt, ScopeInv, JobOrder
  <2>2. lease[t].state = "none"
    BY <2>1 DEF TreeInv, RowsMatch, Row, Exists
  <2> QED BY <2>1, <2>2 DEF Transfers, Root
<1> DEFINE child == [state |-> "active", gen |-> lease[l].gen + 1, parent |-> l,
                     scope |-> xfer[t].scope]
           L == [lease EXCEPT ![l].state = "delegated"]
           X == [xfer EXCEPT ![t].phase = "child_activated"]
<1>1. /\ lease' = [L EXCEPT ![t] = child] /\ xfer' = [X EXCEPT ![t].child = TRUE]
      /\ tokens' = tokens \cup {<<t, lease[l].gen + 1>>}
      /\ Return /\ UNCHANGED <<permits, box, mut>>
  BY DEF ActivateChild
<1>2. /\ DOMAIN L = Leases /\ L[l].state = "delegated"
      /\ L[l].parent = lease[l].parent /\ L[l].scope = lease[l].scope
      /\ \A k \in Leases \ {l} : L[k] = lease[k]
  BY DEF Tables, LeaseRecords
<1>3. /\ X \in [Transfers -> TransferRecords] /\ X[t].phase = "child_activated"
      /\ X[t].parent = l /\ X[t].scope = xfer[t].scope
      /\ \A u \in Transfers \ {t} : X[u] = xfer[u]
  BY PhaseSetIs DEF Tables, TransferRecords
<1>4. /\ child.state = "active" /\ child.parent = l /\ child.scope = xfer[t].scope
  OBVIOUS
<1> HIDE DEF L, X, child
<1>5. /\ lease'[t] = child /\ lease'[l] = L[l] /\ \A k \in Leases \ {l, t} : lease'[k] = lease[k]
  BY <1>0, <1>1, <1>2
<1>6. /\ xfer'[t].phase = "child_activated" /\ xfer'[t].parent = l
      /\ xfer'[t].scope = xfer[t].scope
      /\ \A u \in Transfers \ {t} : xfer'[u] = xfer[u]
  BY <1>1, <1>3 DEF TransferRecords
<1> QED BY <1>0, <1>1, <1>2, <1>4, <1>5, <1>6

\* A transfer begins.
LEMMA PrepareOne ==
  ASSUME ScopeInv, NEW t \in Transfers, NEW l \in Leases, NEW S \in Scopes, Prepare(t, l, S)
  PROVE  /\ LeasesMove /\ lease'[l].state = "transferring"
         /\ lease[l].state \in {"active", "delegated"}
         /\ \A k \in Leases \ {l} : lease'[k] = lease[k]
         /\ \A k \in tokens' : k \in tokens /\ k[1] # l
         /\ xfer[t].phase = "none" /\ xfer'[t].phase = "prepared"
         /\ xfer'[t].parent = l /\ xfer'[t].scope = S
         /\ \A E \in exclusions(l) : S \cap E = {}
         /\ \A u \in Transfers \ {t} : xfer'[u] = xfer[u]
         /\ job'.pc = "drain" /\ job'.t = t /\ ~job'.pass.on
         /\ UNCHANGED <<permits, box, mut>>
<1>1. /\ xfer[t].phase = "none" /\ lease[l].state \in {"active", "delegated"}
      /\ \A E \in exclusions(l) : S \cap E = {}
      /\ cas_lease(l, "transferring", lease[l].gen + 1)
      /\ UNCHANGED <<permits, box, mut>>
  BY DEF Prepare, can_transition_to, LegalTransitions, admits_subscope
<1>2. Live(l) /\ "transferring" \in States \ {"none"}
  BY <1>1 DEF Live, States
<1>3. /\ LeasesMove /\ lease'[l].state = "transferring"
      /\ \A k \in Leases \ {l} : lease'[k] = lease[k]
      /\ \A k \in tokens' : k \in tokens /\ k[1] # l
  BY <1>1, <1>2, MoveOne
<1>4. /\ xfer'[t].phase = "prepared" /\ xfer'[t].parent = l /\ xfer'[t].scope = S
      /\ \A u \in Transfers \ {t} : xfer'[u] = xfer[u]
  BY Facts DEF Prepare, NoTransfer, Tables
<1>5. job'.pc = "drain" /\ job'.t = t /\ ~job'.pass.on
  BY DEF Prepare, NoJob, NoPass
<1> QED BY <1>1, <1>3, <1>4, <1>5
-----------------------------------------------------------------------------
(* Live leases stay nested *)

\* Leases that only move, or end, leave the lines as they are.
LEMMA NestedMove ==
  ASSUME ScopeInv, Nested, LeasesMove
  PROVE  /\ Nested' /\ \A l \in Leases : Line(lease', l) = Line(lease, l)
<1>1. \A k \in Leases : lease[k].parent \in Leases /\ lease'[k].parent \in Leases
  BY Facts DEF Tables, LeaseRecords, LeasesMove
<1>2. \A l \in Leases : Line(lease', l) = Line(lease, l)
  <2>1. Closed(lease, Leases)
    BY <1>1 DEF Closed
  <2> QED BY <1>1, <2>1, LineStays DEF LeasesMove
<1>3. \A t \in Transfers : t \in Leases
  BY DEF Leases
<1> QED BY <1>2, <1>3 DEF Nested, LeasesMove

\* The ancestors of a lease that exists do.
LEMMA ExistingClosed ==
  ASSUME ScopeInv
  PROVE  Closed(lease, {k \in Leases : Exists(k)})
<1> SUFFICES ASSUME NEW k \in Leases, Exists(k), k # Root
             PROVE  lease[k].parent \in Leases /\ Exists(lease[k].parent)
  BY DEF Closed
<1>1. k \in Transfers
  BY DEF Leases
<1>2. xfer[k].phase # "none" /\ lease[k].parent = xfer[k].parent
  BY <1>1 DEF ScopeInv, TreeInv, RowsMatch, Row
<1> QED BY <1>1, <1>2, Facts DEF TreeInv, ScopesNest

\* Nor does a lease that begins change the line of one that exists, and its own
\* line has its parent's.
LEMMA ActivateLines ==
  ASSUME ScopeInv, ScopeInv', ActivateChild, "finish" \notin Faults
  PROVE  /\ \A k \in Leases : Exists(k) => Line(lease', k) = Line(lease, k) /\ Exists(k)'
         /\ Line(lease, xfer[job.t].parent) \subseteq Line(lease', job.t)
<1> USE Facts
<1>a. PICK t \in Transfers : t = job.t
  BY DEF ActivateChild, JobAt
<1>b. PICK l \in Leases : l = xfer[t].parent
  OBVIOUS
<1>1. /\ t \in Leases /\ t # Root /\ l # t /\ lease[t].state = "none"
      /\ lease[l].state = "transferring"
      /\ lease'[t].parent = l /\ lease'[l].parent = lease[l].parent
      /\ lease'[l].state = "delegated"
      /\ \A k \in Leases \ {l, t} : lease'[k] = lease[k]
  BY <1>a, <1>b, ActivateOne
<1>2. \A k \in Leases : lease[k].parent \in Leases /\ lease'[k].parent \in Leases
  BY <1>1 DEF Tables, LeaseRecords
<1> DEFINE E == {k \in Leases : Exists(k)}
<1>3. E \in SUBSET Leases /\ Closed(lease, E) /\ t \notin E /\ l \in E
  BY <1>1, ExistingClosed DEF Exists
<1>4. \A k \in E \ {Root} : lease'[k].parent = lease[k].parent
  BY <1>1, <1>3
<1>5. \A k \in Leases : Exists(k) => k \in E
  OBVIOUS
<1> HIDE DEF E
<1>6. \A k \in E : Line(lease', k) = Line(lease, k)
  BY <1>2, <1>3, <1>4, LineStays
<1>7. t \in Line(lease', t) /\ Closed(lease', Line(lease', t)) /\ Line(lease', t) \subseteq Leases
  BY <1>1, <1>2, LineClosed
<1>8. l \in Line(lease', t)
  BY <1>1, <1>7 DEF Closed
<1>9. Line(lease', l) \subseteq Line(lease', t)
  BY <1>7, <1>8, LineLeast
<1>10. \A k \in Leases : Exists(k) => Exists(k)'
  BY <1>1 DEF Exists
<1> QED BY <1>a, <1>b, <1>3, <1>5, <1>6, <1>9, <1>10

\* A lease that begins is nested in its parent's line, and nothing is inside it.
LEMMA NestedActivate ==
  ASSUME ScopeInv, ScopeInv', Nested, ActivateChild, "finish" \notin Faults
  PROVE  Nested'
<1> USE Facts
<1>a. PICK t \in Transfers : t = job.t
  BY DEF ActivateChild, JobAt
<1>b. PICK l \in Leases : l = xfer[t].parent
  OBVIOUS
<1>1. /\ t \in Leases /\ t # Root /\ l # t /\ lease[t].state = "none"
      /\ lease[l].state = "transferring" /\ xfer[t].phase = "parent_excluded"
      /\ lease'[t].state = "active" /\ lease'[t].scope = xfer[t].scope
      /\ lease'[l].scope = lease[l].scope /\ lease'[l].state = "delegated"
      /\ \A k \in Leases \ {l, t} : lease'[k] = lease[k]
  BY <1>a, <1>b, ActivateOne
<1>2. /\ \A k \in Leases \ {t} : /\ lease'[k].scope = lease[k].scope
                                 /\ Live(k)' => Live(k) /\ Exists(k)
      /\ Live(l) /\ Denied(t) /\ Exists(l)
  BY <1>1 DEF Live, Exists, Denied, parent_denied_in_subscope
<1>3. /\ xfer[t].scope # {} /\ xfer[t].scope \subseteq lease[l].scope
      /\ xfer[t].scope # lease[l].scope /\ lease[l].scope \subseteq Files
  BY <1>b, <1>1 DEF TreeInv, ScopesNest, Tables, LeaseRecords
<1>4. ASSUME NEW u \in Transfers, Live(u), lease[u].parent = l
      PROVE  xfer[t].scope \cap lease[u].scope = {}
  <2>1. u # t /\ Denied(u) /\ xfer[u].parent = l /\ xfer[u].scope = lease[u].scope
    BY <1>1, <1>4, LiveScopes DEF Live
  <2> QED BY <1>b, <1>2, <2>1 DEF TreeInv, SiblingsApart
<1>5. \A a \in Leases \ {l} : Live(a) =>
        lease[l].scope \cap lease[a].scope = {} \/ Below(a, l) \/ Below(l, a)
  BY <1>2 DEF TreeInv, LiveApart
<1>6. ASSUME NEW u \in Transfers \ {t}, Live(u), xfer[t].scope \subseteq lease[u].scope
      PROVE  u \in Line(lease', t)
  <2>1. CASE u = l
    <3>1. \A k \in Leases : lease[k].parent \in Leases
      BY DEF Tables, LeaseRecords
    <3>2. l \in Line(lease, l)
      BY <3>1, LineClosed
    <3> QED BY <1>a, <1>b, <2>1, <3>2, ActivateLines
  <2>2. CASE u # l
    <3>1. u \in Leases /\ lease[l].scope \cap lease[u].scope # {}
      BY <1>3, <1>6
    <3>2. ~Below(u, l)
      <4> SUFFICES ASSUME NEW v \in Transfers, Live(v), lease[v].parent = l,
                          lease[u].scope \subseteq lease[v].scope
                   PROVE  FALSE
        BY DEF Below
      <4> QED BY <1>3, <1>4, <1>6
    <3>3. PICK v \in Transfers : /\ Live(v) /\ lease[v].parent = u
                                /\ lease[l].scope \subseteq lease[v].scope
      BY <1>5, <1>6, <2>2, <3>1, <3>2 DEF Below
    <3>4. lease[l].scope \subseteq lease[u].scope
      BY <3>3, LiveScopes
    <3>5. u \in Line(lease, l)
      BY <1>2, <1>6, <3>4 DEF Nested
    <3> QED BY <1>a, <1>b, <3>5, ActivateLines
  <2> QED BY <2>1, <2>2
<1>7. ASSUME NEW k \in Leases \ {t}, Live(k), lease[k].scope \subseteq xfer[t].scope
      PROVE  FALSE
  <2>1. k # l
    BY <1>3, <1>7
  <2>2. k # Root
    BY <1>3, <1>7 DEF TreeInv, RootWide
  <2>3. k \in Transfers /\ lease[k].scope # {}
    BY <1>7, <2>2, LiveScopes DEF Leases
  <2>4. ~Below(k, l)
    <3> SUFFICES ASSUME NEW v \in Transfers, Live(v), lease[v].parent = l,
                        lease[k].scope \subseteq lease[v].scope
                 PROVE  FALSE
      BY DEF Below
    <3> QED BY <1>4, <1>7, <2>3
  <2>5. PICK v \in Transfers : /\ Live(v) /\ lease[v].parent = k
                              /\ lease[l].scope \subseteq lease[v].scope
    BY <1>3, <1>5, <1>7, <2>1, <2>3, <2>4 DEF Below
  <2>6. lease[v].scope \subseteq lease[k].scope
    BY <2>5, LiveScopes
  <2> QED BY <1>3, <1>7, <2>5, <2>6
<1>8. SUFFICES ASSUME NEW k \in Leases, NEW u \in Transfers, Live(k)', Live(u)',
                      lease'[k].scope \subseteq lease'[u].scope
               PROVE  u \in Line(lease', k)
  BY DEF Nested
<1>9. CASE k = t /\ u = t
  <2>1. \A j \in Leases : lease'[j].parent \in Leases
    <3>1. lease'[t].parent = l /\ lease'[l].parent = lease[l].parent
      BY <1>a, <1>b, ActivateOne
    <3> QED BY <1>1, <3>1 DEF Tables, LeaseRecords
  <2> QED BY <1>1, <1>9, <2>1, LineClosed
<1>10. CASE k = t /\ u # t
  BY <1>1, <1>2, <1>6, <1>8, <1>10
<1>11. CASE k # t /\ u = t
  BY <1>1, <1>2, <1>7, <1>8, <1>11
<1>12. CASE k # t /\ u # t
  <2>1. u \in Line(lease, k)
    BY <1>2, <1>8, <1>12 DEF Nested
  <2> QED BY <1>2, <1>8, <1>12, <2>1, ActivateLines
<1> QED BY <1>9, <1>10, <1>11, <1>12
-----------------------------------------------------------------------------
(* Pending transfers *)

\* No containment is populated that was not.
NoNewcomer == \A t \in Transfers : Populated(t)' => Populated(t)

\* A step that leaves the rows and the leases alone.
LEMMA RoomsStill ==
  ASSUME ScopeInv, Rooms, lease' = lease, SameRows, NoNewcomer
  PROVE  Rooms'
BY DEF Rooms, ScopesNamed, InTransit, PopulatedOpen, Pending, Denied,
       parent_denied_in_subscope, SameRows, NoNewcomer, Live

\* A step that only takes tokens away.
LEMMA TokensStill ==
  ASSUME ScopeInv, TokensUsable, lease' = lease, SameRows, tokens' \subseteq tokens
  PROVE  TokensUsable'
BY DEF TokensUsable, SameRows, Live

\* A lease that moves, but not out of Transferring while a transfer of its is
\* pending, and is not released over a populated containment.
LEMMA RoomsMove ==
  ASSUME ScopeInv, Rooms, LeasesMove, xfer' = xfer, box' = box, NEW l \in Leases,
         \A k \in Leases \ {l} : lease'[k] = lease[k],
         \A u \in Transfers : xfer[u].parent = l => ~Pending(u),
         Live(l)' \/ (l \in Transfers /\ ~Populated(l))
  PROVE  Rooms'
<1> USE Facts
<1>1. ScopesNamed'
  BY DEF Rooms, ScopesNamed
<1>2. InTransit'
  BY DEF Rooms, InTransit, Pending, Denied, parent_denied_in_subscope
<1>3. PopulatedOpen'
  <2>1. \A t \in Transfers : Live(t) => Live(t)' \/ ~Populated(t)
    BY DEF Live, Leases
  <2> QED BY <2>1 DEF Rooms, PopulatedOpen, Populated, Pending
<1> QED BY <1>1, <1>2, <1>3 DEF Rooms

\* The tokens of the others stay usable when a lease moves.
LEMMA TokensMove ==
  ASSUME ScopeInv, TokensUsable, LeasesMove, xfer' = xfer, NEW l \in Leases,
         \A k \in Leases \ {l} : lease'[k] = lease[k],
         tokens' \subseteq tokens,
         Live(l)' \/ \A k \in tokens' : k[1] # l
  PROVE  TokensUsable'
<1>1. \A k \in tokens' : k[1] \in Leases
  BY Facts DEF TokensFit
<1> QED BY <1>1 DEF TokensUsable, Live

\* A transfer that moves on: it is pending only if it was, and denies its parent
\* only what it did or was about to.
LEMMA RoomsPhase ==
  ASSUME ScopeInv, Rooms, lease' = lease, NoNewcomer, NEW t \in Transfers,
         NEW p \in PhaseSet, cas_transfer(t, p), xfer[t].phase # "none",
         p \in {"prepared", "parent_excluded"} => Pending(t),
         p \in {"parent_excluded", "child_activated", "child_terminal"} =>
           Denied(t) \/ Pending(t),
         Populated(t) => p \in {"prepared", "parent_excluded"} \/ Live(t)
  PROVE  Rooms'
<1> USE Facts
<1>1. /\ xfer'[t].phase = p /\ xfer'[t].parent = xfer[t].parent /\ xfer'[t].scope = xfer[t].scope
      /\ \A u \in Transfers \ {t} : xfer'[u] = xfer[u]
  BY PhaseUpdate DEF Tables
<1>2. ScopesNamed'
  BY <1>1 DEF Rooms, ScopesNamed
<1>3. InTransit'
  <2>1. /\ \A u \in Transfers : Pending(u)' => Pending(u)
        /\ \A u \in Transfers : Denied(u)' => Denied(u) \/ (u = t /\ Pending(t))
        /\ \A u \in Transfers : xfer'[u].parent = xfer[u].parent /\ xfer'[u].scope = xfer[u].scope
    BY <1>1 DEF Pending, Denied, parent_denied_in_subscope
  <2> SUFFICES ASSUME NEW u \in Transfers, Pending(u)'
               PROVE  /\ lease'[xfer'[u].parent].state = "transferring"
                      /\ \A v \in Transfers \ {u} : xfer'[v].parent = xfer'[u].parent =>
                           ~Pending(v)' /\ (Denied(v)' => xfer'[u].scope \cap xfer'[v].scope = {})
    BY DEF InTransit
  <2> QED BY <2>1 DEF Rooms, InTransit
<1>4. PopulatedOpen'
  BY <1>1 DEF Rooms, PopulatedOpen, NoNewcomer, Pending, Live
<1> QED BY <1>2, <1>3, <1>4 DEF Rooms

\* A transfer that moves on, and not to `prepared`, takes no token's use away.
LEMMA TokensPhase ==
  ASSUME ScopeInv, TokensUsable, lease' = lease, NEW t \in Transfers,
         NEW p \in PhaseSet \ {"prepared"}, cas_transfer(t, p), tokens' \subseteq tokens
  PROVE  TokensUsable'
<1>1. /\ xfer'[t].phase = p /\ xfer'[t].parent = xfer[t].parent
      /\ \A u \in Transfers \ {t} : xfer'[u] = xfer[u]
  BY Facts, PhaseUpdate DEF Tables
<1> QED BY <1>1 DEF TokensUsable, Live

\* A call that ends leaves nothing to say, but that recovery is in its pass.
LEMMA HomeEnds ==
  ASSUME job \in Jobs, job.t \in Transfers, Return \/ Keep
  PROVE  JobHome'
<1>1. job'.pc \in {"idle", "recover"} /\ (job'.pc = "recover" => job'.pass.on)
  <2>1. CASE Return
    BY <2>1 DEF Return, Resume, NoJob, NoPass, Jobs, Passes
  <2>2. CASE Keep
    BY <2>2 DEF Keep, Resume, NoJob, NoPass, Jobs, Passes
  <2> QED BY <2>1, <2>2
<1> QED BY <1>1 DEF JobHome
-----------------------------------------------------------------------------
(* Every step keeps the pending transfers in order *)

Tractable == {"terminate", "finish", "abandon"} \cap Faults = {}

\* The steps of begin_transfer up to the release of the user code.
LEMMA TransitBefore ==
  ASSUME ScopeInv, PermitsCover, TransitInv, Tractable,
         \/ Drain \/ ReservePermit \/ CreateContainment \/ AttachOwnership
         \/ ReleaseUserCode \/ DropPermit
  PROVE  TransitInv'
<1> USE Facts DEF Tractable
<1>a. PICK t \in Transfers : t = job.t
  BY DEF Drain, ReservePermit, CreateContainment, AttachOwnership, ReleaseUserCode,
         DropPermit, JobAt
<1>b. {"permit", "create", "attach", "release", "drop", "exclude", "abandon"} \subseteq PCs
  BY DEF PCs
<1>0. /\ lease' = lease /\ tokens' = tokens
  BY DEF Drain, ReservePermit, CreateContainment, AttachOwnership, ReleaseUserCode,
         DropPermit, durable
<1>1. SameRows
  <2>1. CASE xfer' = [xfer EXCEPT ![t].attached = TRUE]
    BY <2>1 DEF SameRows, Tables, TransferRecords
  <2>2. CASE xfer' = xfer
    BY <2>2 DEF SameRows
  <2> QED BY <1>a, <2>1, <2>2 DEF Drain, ReservePermit, CreateContainment, AttachOwnership,
                                ReleaseUserCode, DropPermit, durable
<1>2. Pending(t) /\ (job.pc # "drop" => xfer[t].phase = "prepared")
  <2>1. CASE job.pc = "drop"
    BY <1>a, <2>1 DEF TransitInv, JobHome
  <2>2. CASE job.pc \in {"drain", "permit", "create", "attach", "release"}
    BY <1>a, <2>2 DEF ScopeInv, JobOrder, Pending
  <2> QED BY <2>1, <2>2 DEF Drain, ReservePermit, CreateContainment, AttachOwnership,
                            ReleaseUserCode, DropPermit, JobAt
<1>3. /\ GoesOn /\ job'.pc \in {"permit", "create", "attach", "release", "drop", "exclude",
                                "abandon"}
      /\ job'.pc \in {"drop", "abandon"} => ~Populated(t)'
      /\ \A u \in Transfers \ {t} : box'[u] = box[u]
  <2>1. CASE Drain \/ ReservePermit
    BY <1>a, <1>b, <2>1, GotoJob DEF Drain, ReservePermit, JobAt, durable, PermitsCover, Populated
  <2>2. CASE CreateContainment
    BY <1>a, <1>b, <2>2, GotoJob
       DEF CreateContainment, JobAt, PermitsCover, Populated, Tables, Boxes
  <2>3. CASE AttachOwnership \/ ReleaseUserCode
    BY <1>a, <1>b, <2>3, GotoJob
       DEF AttachOwnership, ReleaseUserCode, terminate, Populated, Tables, Boxes
  <2>4. CASE DropPermit
    BY <1>a, <1>b, <2>4, GotoJob DEF DropPermit, JobAt, TransitInv, JobHome, Populated
  <2> QED BY <2>1, <2>2, <2>3, <2>4
<1>4. Rooms'
  <2>1. ScopesNamed' /\ InTransit'
    BY <1>0, <1>1 DEF TransitInv, Rooms, ScopesNamed, InTransit, SameRows, Pending, Denied,
                      parent_denied_in_subscope
  <2>2. PopulatedOpen'
    BY <1>0, <1>1, <1>2, <1>3 DEF TransitInv, Rooms, PopulatedOpen, SameRows, Pending, Populated, Live
  <2> QED BY <2>1, <2>2 DEF Rooms
<1>5. TokensUsable'
  BY <1>0, <1>1, TokensStill DEF TransitInv
<1>6. JobHome'
  BY <1>a, <1>1, <1>2, <1>3 DEF GoesOn, JobHome, Pending, SameRows
<1> QED BY <1>4, <1>5, <1>6 DEF TransitInv

\* The exclusion: the parent's token is one of the transferring lease, whose one
\* pending transfer is not `prepared` any more.
LEMMA TransitExclude ==
  ASSUME ScopeInv, TransitInv, Tractable, ExcludeParent
  PROVE  TransitInv'
<1> USE Facts DEF Tractable
<1>a. PICK t \in Transfers : t = job.t
  BY DEF ExcludeParent, JobAt
<1>b. PICK l \in Leases : l = xfer[t].parent
  OBVIOUS
<1>1. /\ xfer[t].phase = "prepared" /\ lease[l].state = "transferring" /\ Pending(t)
      /\ cas_transfer(t, "parent_excluded") /\ Goto("activate")
      /\ tokens' = tokens \cup {<<l, lease[l].gen>>} /\ lease' = lease /\ box' = box
      /\ "parent_excluded" \in PhaseSet
  BY <1>a, <1>b, PhaseSetIs DEF ExcludeParent, JobAt, ScopeInv, JobOrder, Pending
<1>2. /\ xfer'[t].phase = "parent_excluded" /\ xfer'[t].parent = l
      /\ \A u \in Transfers \ {t} : xfer'[u] = xfer[u]
  BY <1>b, <1>1, PhaseUpdate DEF Tables
<1>3. Rooms'
  BY <1>1, RoomsPhase DEF TransitInv, NoNewcomer, Populated
<1>4. TokensUsable'
  <2>1. \A u \in Transfers : xfer'[u].phase = "prepared" =>
          u # t /\ xfer[u].phase = "prepared" /\ xfer'[u].parent = xfer[u].parent /\ xfer[u].parent # l
    BY <1>b, <1>1, <1>2 DEF TransitInv, Rooms, InTransit, Pending
  <2>2. \A k \in tokens' : k \in tokens \/ k[1] = l
    BY <1>1
  <2>3. Live(l)'
    BY <1>1 DEF Live
  <2> QED BY <1>1, <2>1, <2>2, <2>3 DEF TransitInv, TokensUsable, Live
<1>5. JobHome'
  BY <1>1, GotoJob DEF JobHome, PCs
<1> QED BY <1>3, <1>4, <1>5 DEF TransitInv

\* The activation: the parent has no other transfer pending, and nobody has one
\* from a lease that did not exist.
LEMMA TransitActivate ==
  ASSUME ScopeInv, TransitInv, Tractable, ActivateChild
  PROVE  TransitInv'
<1> USE Facts DEF Tractable
<1>a. PICK t \in Transfers : t = job.t
  BY DEF ActivateChild, JobAt
<1>b. PICK l \in Leases : l = xfer[t].parent
  OBVIOUS
<1>1. /\ t \in Leases /\ t # Root /\ l # t
      /\ xfer[t].phase = "parent_excluded" /\ lease[l].state = "transferring"
      /\ lease[t].state = "none" /\ lease'[t].state = "active" /\ lease'[l].state = "delegated"
      /\ \A k \in Leases \ {l, t} : lease'[k] = lease[k]
      /\ xfer'[t].phase = "child_activated" /\ xfer'[t].parent = l
      /\ xfer'[t].scope = xfer[t].scope
      /\ \A u \in Transfers \ {t} : xfer'[u] = xfer[u]
      /\ tokens' = tokens \cup {<<t, lease[l].gen + 1>>}
      /\ Return /\ UNCHANGED <<permits, box, mut>>
  BY <1>a, <1>b, ActivateOne
<1>2. /\ \A u \in Transfers : Pending(u)' => /\ u # t /\ Pending(u) /\ xfer'[u] = xfer[u]
                                             /\ xfer[u].parent \notin {l, t}
      /\ \A u \in Transfers : Denied(u)' => Denied(u)
      /\ \A u \in Transfers : xfer'[u].parent = xfer[u].parent /\ xfer'[u].scope = xfer[u].scope
  <2>1. /\ \A u \in Transfers : Pending(u)' => u # t /\ Pending(u) /\ xfer'[u] = xfer[u]
        /\ \A u \in Transfers : Denied(u)' => Denied(u)
        /\ \A u \in Transfers : xfer'[u].parent = xfer[u].parent /\ xfer'[u].scope = xfer[u].scope
    BY <1>b, <1>1 DEF Pending, Denied, parent_denied_in_subscope
  <2>2. \A u \in Transfers : Pending(u) => xfer[u].parent # t
    BY <1>1 DEF Pending, TreeInv, ScopesNest, Exists
  <2>3. \A u \in Transfers \ {t} : Pending(u) => xfer[u].parent # l
    BY <1>b, <1>1 DEF TransitInv, Rooms, InTransit, Pending
  <2> QED BY <2>1, <2>2, <2>3
<1>3. Rooms'
  <2>1. ScopesNamed'
    BY <1>1 DEF TransitInv, Rooms, ScopesNamed
  <2>2. InTransit'
    BY <1>1, <1>2 DEF TransitInv, Rooms, InTransit
  <2>3. PopulatedOpen'
    BY <1>1 DEF TransitInv, Rooms, PopulatedOpen, Populated, Pending, Live, Leases
  <2> QED BY <2>1, <2>2, <2>3 DEF Rooms
<1>4. TokensUsable'
  <2>1. \A k \in tokens' : (k \in tokens /\ k[1] \in Leases) \/ k[1] = t
    BY <1>1 DEF TokensFit
  <2>2. \A k \in Leases : Live(k) => Live(k)'
    BY <1>1 DEF Live
  <2>3. Live(t)'
    BY <1>1 DEF Live
  <2>4. \A u \in Transfers : xfer'[u].phase = "prepared" =>
          xfer[u].phase = "prepared" /\ xfer'[u].parent = xfer[u].parent /\ xfer[u].parent # t
    BY <1>2, <1>1 DEF Pending
  <2> QED BY <2>1, <2>2, <2>3, <2>4 DEF TransitInv, TokensUsable
<1>5. JobHome'
  BY <1>a, <1>1, HomeEnds
<1> QED BY <1>3, <1>4, <1>5 DEF TransitInv

\* Abandoning: the containment is gone, and the lease has no other transfer
\* pending.
LEMMA TransitAbandon ==
  ASSUME ScopeInv, TransitInv, Tractable, Abandon
  PROVE  TransitInv'
<1> USE Facts DEF Tractable
<1>a. PICK t \in Transfers : t = job.t
  BY DEF Abandon, JobAt
<1>1. /\ Pending(t) /\ ~Populated(t) /\ xfer[t].phase # "none"
      /\ cas_transfer(t, "committed") /\ Goto("unwind")
      /\ tokens' = tokens /\ lease' = lease /\ box' = box
      /\ "committed" \in PhaseSet \ {"prepared"}
  BY <1>a, PhaseSetIs DEF Abandon, JobAt, TransitInv, JobHome, Pending
<1>2. /\ xfer'[t].phase = "committed" /\ xfer'[t].parent = xfer[t].parent
      /\ \A u \in Transfers \ {t} : xfer'[u] = xfer[u]
  BY <1>1, PhaseUpdate DEF Tables
<1>3. Rooms'
  BY <1>1, RoomsPhase DEF TransitInv, NoNewcomer, Populated
<1>4. TokensUsable'
  BY <1>1, TokensPhase DEF TransitInv
<1>5. JobHome'
  <2>1. job'.pc = "unwind" /\ job'.t = t
    BY <1>a, <1>1, GotoJob DEF PCs, GoesOn
  <2>2. \A u \in Transfers : xfer'[u].parent = xfer'[t].parent => ~Pending(u)'
    BY <1>1, <1>2 DEF TransitInv, Rooms, InTransit, Pending
  <2> QED BY <1>1, <2>1, <2>2 DEF JobHome, Populated
<1> QED BY <1>3, <1>4, <1>5 DEF TransitInv

\* The parent is Active again, and none of its transfers is pending.
LEMMA TransitUnwind ==
  ASSUME ScopeInv, TransitInv, Unwind
  PROVE  TransitInv'
<1> USE Facts
<1>a. PICK t \in Transfers : t = job.t
  BY DEF Unwind, JobAt
<1>b. PICK l \in Leases : l = xfer[t].parent
  OBVIOUS
<1>1. JobHome'
  BY <1>a, HomeEnds DEF Unwind
<1>2. CASE lease[l].state = "transferring" /\ cas_lease(l, "active", lease[l].gen + 1)
  <2>1. /\ Live(l) /\ "active" \in States \ {"none"}
        /\ \A u \in Transfers : xfer[u].parent = l => ~Pending(u)
    BY <1>a, <1>b, <1>2 DEF Live, States, Unwind, JobAt, TransitInv, JobHome
  <2>2. /\ LeasesMove /\ lease'[l].state = "active"
        /\ \A k \in Leases \ {l} : lease'[k] = lease[k]
        /\ \A k \in tokens' : k \in tokens /\ k[1] # l
    BY <1>2, <2>1, MoveOne
  <2>3. Live(l)' /\ xfer' = xfer /\ box' = box /\ tokens' \subseteq tokens
    BY <2>2 DEF Live, Unwind
  <2>4. Rooms'
    BY <2>1, <2>2, <2>3, RoomsMove DEF TransitInv
  <2>5. TokensUsable'
    BY <2>2, <2>3, TokensMove DEF TransitInv
  <2> QED BY <1>1, <2>4, <2>5 DEF TransitInv
<1>3. CASE UNCHANGED <<lease, tokens>>
  <2>1. lease' = lease /\ SameRows /\ NoNewcomer /\ tokens' \subseteq tokens
    BY <1>3 DEF Unwind, SameRows, NoNewcomer, Populated
  <2> QED BY <1>1, <2>1, RoomsStill, TokensStill DEF TransitInv
<1> QED BY <1>a, <1>b, <1>2, <1>3 DEF Unwind

\* A transfer begins: its parent had none pending, or it would be transferring
\* already, and loses its tokens.
LEMMA TransitPrepare ==
  ASSUME ScopeInv, PermitsCover, TransitInv,
         NEW t \in Transfers, NEW l \in Leases, NEW S \in Scopes, Prepare(t, l, S)
  PROVE  TransitInv'
<1> USE Facts
<1>1. /\ LeasesMove /\ lease'[l].state = "transferring"
      /\ lease[l].state \in {"active", "delegated"}
      /\ \A k \in Leases \ {l} : lease'[k] = lease[k]
      /\ \A k \in tokens' : k \in tokens /\ k[1] # l
      /\ xfer[t].phase = "none" /\ xfer'[t].phase = "prepared"
      /\ xfer'[t].parent = l /\ xfer'[t].scope = S
      /\ \A E \in exclusions(l) : S \cap E = {}
      /\ \A u \in Transfers \ {t} : xfer'[u] = xfer[u]
      /\ job'.pc = "drain" /\ job'.t = t /\ ~job'.pass.on
      /\ UNCHANGED <<permits, box, mut>>
  BY PrepareOne
<1>2. ScopesNamed'
  BY <1>1 DEF TransitInv, Rooms, ScopesNamed
<1>3. InTransit'
  <2>1. \A u \in Transfers : Pending(u) => xfer[u].parent # l
    BY <1>1 DEF TransitInv, Rooms, InTransit
  <2>2. /\ \A u \in Transfers \ {t} : /\ Pending(u)' = Pending(u) /\ Denied(u)' = Denied(u)
                                      /\ xfer'[u] = xfer[u]
        /\ ~Denied(t)'
    BY <1>1 DEF Pending, Denied, parent_denied_in_subscope
  <2>3. \A u \in Transfers \ {t} : (xfer[u].parent = l /\ Denied(u)) => S \cap xfer[u].scope = {}
    BY <1>1 DEF exclusions, Denied
  <2> SUFFICES ASSUME NEW u \in Transfers, Pending(u)'
               PROVE  /\ lease'[xfer'[u].parent].state = "transferring"
                      /\ \A v \in Transfers \ {u} : xfer'[v].parent = xfer'[u].parent =>
                           ~Pending(v)' /\ (Denied(v)' => xfer'[u].scope \cap xfer'[v].scope = {})
    BY DEF InTransit
  <2>4. CASE u = t
    BY <1>1, <2>1, <2>2, <2>3, <2>4
  <2>5. CASE u # t
    <3>1. Pending(u) /\ xfer'[u] = xfer[u] /\ xfer[u].parent \in Leases \ {l}
      BY <2>1, <2>2, <2>5
    <3> QED BY <1>1, <2>2, <2>5, <3>1 DEF TransitInv, Rooms, InTransit
  <2> QED BY <2>4, <2>5
<1>4. PopulatedOpen'
  <2>1. ~Populated(t)
    BY <1>1 DEF PermitsCover, Populated
  <2>2. \A u \in Transfers : Live(u) => Live(u)'
    BY <1>1 DEF Live, Leases
  <2> QED BY <1>1, <2>1, <2>2 DEF TransitInv, Rooms, PopulatedOpen, Populated, Pending
<1>5. TokensUsable'
  <2>1. \A k \in tokens' : k[1] \in Leases \ {l} /\ k \in tokens
    BY <1>1 DEF TokensFit
  <2> QED BY <1>1, <2>1 DEF TransitInv, TokensUsable, Live
<1>6. JobHome'
  BY <1>1 DEF JobHome
<1> QED BY <1>2, <1>3, <1>4, <1>5, <1>6 DEF TransitInv, Rooms

\* A child ends, or its return begins.
LEMMA TransitTerminal ==
  ASSUME ScopeInv, TransitInv, NEW t \in Transfers, ChildTerminal(t) \/ BeginReturn(t)
  PROVE  TransitInv'
<1> USE Facts
<1>1. lease' = lease /\ box' = box /\ tokens' \subseteq tokens
  BY DEF ChildTerminal, BeginReturn, durable, invalidate_all_tokens
<1>2. JobHome'
  BY DEF ChildTerminal, BeginReturn, Free, NoJob, JobHome
<1>3. CASE cas_transfer(t, "child_terminal") /\ xfer[t].phase = "child_activated"
  <2>1. /\ "child_terminal" \in PhaseSet \ {"prepared"} /\ Denied(t) /\ ~Pending(t)
    BY <1>3, PhaseSetIs DEF Denied, parent_denied_in_subscope, Pending
  <2>2. Populated(t) => Live(t)
    BY <2>1 DEF TransitInv, Rooms, PopulatedOpen
  <2>3. Rooms'
    BY <1>1, <1>3, <2>1, <2>2, RoomsPhase DEF TransitInv, NoNewcomer, Populated
  <2>4. TokensUsable'
    BY <1>1, <1>3, <2>1, TokensPhase DEF TransitInv
  <2> QED BY <1>2, <2>3, <2>4 DEF TransitInv
<1>4. CASE xfer' = xfer
  <2>1. SameRows /\ NoNewcomer
    BY <1>1, <1>4 DEF SameRows, NoNewcomer, Populated
  <2> QED BY <1>1, <1>2, <2>1, RoomsStill, TokensStill DEF TransitInv
<1> QED BY <1>3, <1>4 DEF ChildTerminal, BeginReturn, durable

\* The barrier lets only an empty containment through, and what follows up to the
\* parent's move leaves it empty.
LEMMA TransitBarrier ==
  ASSUME ScopeInv, TransitInv, ReturnBarrier \/ ReturnPermit
  PROVE  TransitInv'
<1> USE Facts
<1>a. PICK t \in Transfers : t = job.t
  BY DEF ReturnBarrier, ReturnPermit, JobAt
<1>1. lease' = lease /\ xfer' = xfer /\ box' = box /\ tokens' = tokens
  BY DEF ReturnBarrier, ReturnPermit, durable
<1>2. JobHome'
  <2>1. CASE Return \/ Keep
    BY <1>a, <2>1, HomeEnds
  <2>2. CASE Goto("ret_permit") /\ ProvenEmpty(t)
    <3>1. job'.pc = "ret_permit" /\ job'.t = t
      BY <1>a, <2>2, GotoJob DEF PCs, GoesOn
    <3> QED BY <1>1, <2>2, <3>1 DEF JobHome, ProvenEmpty, Populated
  <2>3. CASE Goto("ret_child") /\ JobAt("ret_permit")
    <3>1. job'.pc = "ret_child" /\ job'.t = t
      BY <1>a, <2>3, GotoJob DEF PCs, GoesOn
    <3> QED BY <1>a, <1>1, <2>3, <3>1 DEF JobHome, JobAt, Populated, TransitInv
  <2> QED BY <1>a, <2>1, <2>2, <2>3 DEF ReturnBarrier, ReturnPermit
<1>3. SameRows /\ NoNewcomer
  BY <1>1 DEF SameRows, NoNewcomer, Populated
<1> QED BY <1>1, <1>2, <1>3, RoomsStill, TokensStill DEF TransitInv

\* The release of the child.
LEMMA TransitRelease ==
  ASSUME ScopeInv, TransitInv, ReturnChild
  PROVE  TransitInv'
<1> USE Facts
<1>a. PICK t \in Transfers : t = job.t
  BY DEF ReturnChild, JobAt
<1>1. /\ xfer' = xfer /\ box' = box /\ tokens' \subseteq tokens
      /\ \A k \in tokens' : k[1] # t
      /\ ~Populated(t) /\ t \in Leases
  BY <1>a DEF ReturnChild, JobAt, invalidate_all_tokens, TransitInv, JobHome
<1>2. CASE /\ can_transition_to(t, "released") /\ Goto("ret_parent")
           /\ lease' = [lease EXCEPT ![t].state = "released", ![t].gen = @ + 1]
  <2>1. /\ LeasesMove /\ lease[t].state # "transferring"
        /\ \A k \in Leases \ {t} : lease'[k] = lease[k]
    BY <1>2, ReleaseOne
  <2>2. \A u \in Transfers : xfer[u].parent = t => ~Pending(u)
    BY <2>1 DEF TransitInv, Rooms, InTransit
  <2>3. Rooms'
    BY <1>1, <2>1, <2>2, RoomsMove DEF TransitInv
  <2>4. TokensUsable'
    BY <1>1, <2>1, TokensMove DEF TransitInv
  <2>5. job'.pc = "ret_parent" /\ job'.t = t
    BY <1>a, <1>2, GotoJob DEF PCs, GoesOn
  <2>6. JobHome'
    BY <1>1, <2>5 DEF JobHome, Populated
  <2> QED BY <2>3, <2>4, <2>6 DEF TransitInv
<1>3. CASE (Return \/ Keep) /\ lease' = lease
  <2>1. SameRows /\ NoNewcomer
    BY <1>1 DEF SameRows, NoNewcomer, Populated
  <2> QED BY <1>a, <1>1, <1>3, <2>1, HomeEnds, RoomsStill, TokensStill DEF TransitInv
<1> QED BY <1>a, <1>2, <1>3 DEF ReturnChild

\* The parent's two moves: neither is out of Transferring.
LEMMA TransitParent ==
  ASSUME ScopeInv, TransitInv, ReturnParent \/ RestoreLease
  PROVE  TransitInv'
<1> USE Facts
<1>a. PICK t \in Transfers : t = job.t
  BY DEF ReturnParent, RestoreLease, JobAt
<1>b. PICK l \in Leases : l = xfer[t].parent
  OBVIOUS
<1>1. xfer' = xfer /\ box' = box /\ ~Populated(t)
  BY <1>a DEF ReturnParent, RestoreLease, JobAt, TransitInv, JobHome
<1>2. ASSUME LeasesMove, \A k \in Leases \ {l} : lease'[k] = lease[k],
             lease[l].state # "transferring", Live(l)', tokens' \subseteq tokens
      PROVE  Rooms' /\ TokensUsable'
  <2>1. \A u \in Transfers : xfer[u].parent = l => ~Pending(u)
    BY <1>2 DEF TransitInv, Rooms, InTransit
  <2> QED BY <1>1, <1>2, <2>1, RoomsMove, TokensMove DEF TransitInv
<1>3. CASE /\ can_transition_to(l, "returning") /\ Goto("ret_lease") /\ tokens' = tokens
           /\ lease' = [lease EXCEPT ![l].state = "returning"]
  <2>1. /\ LeasesMove /\ lease'[l].state = "returning" /\ lease[l].state = "delegated"
        /\ \A k \in Leases \ {l} : lease'[k] = lease[k]
    BY <1>3, ReturnOne
  <2>2. Live(l)'
    BY <2>1 DEF Live
  <2>3. job'.pc = "ret_lease" /\ job'.t = t
    BY <1>a, <1>3, GotoJob DEF PCs, GoesOn
  <2>4. JobHome'
    BY <1>1, <2>3 DEF JobHome, Populated
  <2>5. Rooms' /\ TokensUsable'
    BY <1>2, <1>3, <2>1, <2>2
  <2> QED BY <2>4, <2>5 DEF TransitInv
<1>4. CASE /\ cas_lease(l, restored_state(t), lease[l].gen + 1) /\ Goto("ret_phase")
           /\ JobAt("ret_lease")
  <2>1. /\ lease[l].state = "returning" /\ Live(l)
        /\ restored_state(t) \in {"active", "delegated"}
        /\ restored_state(t) \in States \ {"none"}
    BY <1>a, <1>b, <1>4 DEF JobAt, ScopeInv, JobOrder, restored_state, Live, States
  <2>2. /\ LeasesMove /\ lease'[l].state = restored_state(t)
        /\ \A k \in Leases \ {l} : lease'[k] = lease[k]
        /\ \A k \in tokens' : k \in tokens
    BY <1>4, <2>1, MoveOne
  <2>3. lease'[l].state \in {"active", "delegated"} /\ Live(l)' /\ tokens' \subseteq tokens
    BY <2>1, <2>2 DEF Live
  <2>4. job'.pc = "ret_phase" /\ job'.t = t
    BY <1>a, <1>4, GotoJob DEF PCs, GoesOn
  <2>5. JobHome'
    BY <1>b, <1>1, <2>3, <2>4 DEF JobHome, Populated
  <2>6. Rooms' /\ TokensUsable'
    BY <1>2, <2>1, <2>2, <2>3
  <2> QED BY <2>5, <2>6 DEF TransitInv
<1>5. CASE (Return \/ Keep) /\ lease' = lease /\ tokens' = tokens
  <2>1. SameRows /\ NoNewcomer
    BY <1>1 DEF SameRows, NoNewcomer, Populated
  <2> QED BY <1>a, <1>5, <2>1, HomeEnds, RoomsStill, TokensStill DEF TransitInv
<1> QED BY <1>a, <1>b, <1>3, <1>4, <1>5 DEF ReturnParent, RestoreLease

\* The last two phases. The token goes to a lease that is Active or Delegated,
\* which has no transfer pending.
LEMMA TransitClose ==
  ASSUME ScopeInv, TransitInv, RestorePhase \/ Commit
  PROVE  TransitInv'
<1> USE Facts
<1>a. PICK t \in Transfers : t = job.t
  BY DEF RestorePhase, Commit, JobAt
<1>b. PICK l \in Leases : l = xfer[t].parent
  OBVIOUS
<1>1. lease' = lease /\ box' = box /\ NoNewcomer
  BY DEF RestorePhase, Commit, NoNewcomer, Populated
<1>2. {"parent_restored", "committed"} \subseteq PhaseSet \ {"prepared"}
  BY PhaseSetIs
<1>3. CASE /\ JobAt("ret_phase") /\ cas_transfer(t, "parent_restored") /\ Goto("commit")
           /\ tokens' = tokens
  <2>1. xfer[t].phase = "child_terminal" /\ ~Populated(t)
    BY <1>a, <1>3 DEF JobAt, ScopeInv, JobOrder, TransitInv, JobHome
  <2>2. Rooms'
    BY <1>1, <1>2, <1>3, <2>1, RoomsPhase DEF TransitInv
  <2>3. TokensUsable'
    BY <1>1, <1>2, <1>3, TokensPhase DEF TransitInv
  <2>4. job'.pc = "commit" /\ job'.t = t /\ job'.pass = job.pass
    BY <1>a, <1>3, GotoJob DEF PCs, GoesOn
  <2>5. xfer'[t].parent = l
    BY <1>b, <1>2, <1>3, PhaseUpdate DEF Tables
  <2>6. JobHome'
    BY <1>a, <1>b, <1>1, <1>3, <2>4, <2>5 DEF JobHome, JobAt, TransitInv
  <2> QED BY <2>2, <2>3, <2>6 DEF TransitInv
<1>4. CASE /\ JobAt("commit") /\ cas_transfer(t, "committed") /\ Return
           /\ tokens' = IF job.pass.on THEN tokens ELSE tokens \cup {<<l, lease[l].gen>>}
  <2>1. xfer[t].phase = "parent_restored" /\ ~Pending(t) /\ ~Live(t)
    BY <1>a, <1>4 DEF JobAt, ScopeInv, JobOrder, Pending, TreeInv, RowsMatch, Row
  <2>2. Rooms'
    BY <1>1, <1>2, <1>4, <2>1, RoomsPhase DEF TransitInv, Rooms, PopulatedOpen
  <2>3. TokensUsable'
    <3>1. CASE job.pass.on
      BY <1>1, <1>2, <1>4, <3>1, TokensPhase DEF TransitInv
    <3>2. CASE ~job.pass.on
      <4>1. lease[l].state \in {"active", "delegated"}
        BY <1>a, <1>b, <1>4, <3>2 DEF JobAt, TransitInv, JobHome
      <4>2. Live(l) /\ \A u \in Transfers : Pending(u) => xfer[u].parent # l
        BY <4>1 DEF Live, TransitInv, Rooms, InTransit
      <4>3. \A u \in Transfers : xfer'[u].phase = "prepared" =>
              xfer[u].phase = "prepared" /\ xfer'[u].parent = xfer[u].parent /\ xfer[u].parent # l
        <5>1. xfer'[t].phase = "committed" /\ \A u \in Transfers \ {t} : xfer'[u] = xfer[u]
          BY <1>2, <1>4, PhaseUpdate DEF Tables
        <5> QED BY <4>2, <5>1 DEF Pending
      <4>4. \A k \in tokens' : k \in tokens \/ k[1] = l
        BY <1>4, <3>2
      <4> QED BY <1>1, <4>2, <4>3, <4>4 DEF TransitInv, TokensUsable, Live
    <3> QED BY <3>1, <3>2
  <2>4. JobHome'
    BY <1>a, <1>4, HomeEnds
  <2> QED BY <2>2, <2>3, <2>4 DEF TransitInv
<1>5. CASE Keep /\ xfer' = xfer /\ tokens' = tokens
  <2>1. SameRows
    BY <1>5 DEF SameRows
  <2> QED BY <1>a, <1>1, <1>5, <2>1, HomeEnds, RoomsStill, TokensStill DEF TransitInv
<1> QED BY <1>a, <1>b, <1>3, <1>4, <1>5 DEF RestorePhase, Commit

\* Recovery: it gives up only a pending transfer whose containment is gone, ends
\* only a child whose containment is empty, and issues no token.
LEMMA TransitRecover ==
  ASSUME ScopeInv, TransitInv, NEW t \in Transfers, RecoverOne(t)
  PROVE  TransitInv'
<1> USE Facts
<1>a. job.pass.todo \subseteq Transfers /\ job.pass.todo # {} /\ job.pc = "recover"
  BY DEF RecoverOne, Jobs, Passes, JobAt
<1>1. lease' = lease /\ box' = box /\ NoNewcomer
  BY DEF RecoverOne, NoNewcomer, Populated
<1>2. job.pass.on
  BY <1>a DEF TransitInv, JobHome
<1>3. CASE /\ Pending(t) /\ MayRetire(t) /\ xfer' = xfer /\ tokens' = tokens
           /\ job'.pc \in {"drop", "abandon"} /\ job'.t = t
  <2>1. ~Populated(t) /\ SameRows
    BY <1>3 DEF MayRetire, ProvenEmpty, Populated, SameRows
  <2>2. JobHome'
    BY <1>1, <1>3, <2>1 DEF JobHome, Pending, Populated
  <2> QED BY <1>1, <1>3, <2>1, <2>2, RoomsStill, TokensStill DEF TransitInv
<1>4. CASE /\ xfer[t].phase = "child_activated" /\ cas_transfer(t, "child_terminal")
           /\ invalidate_all_tokens(t) /\ job'.pc = "return"
  <2>1. /\ "child_terminal" \in PhaseSet \ {"prepared"} /\ Denied(t) /\ ~Pending(t)
        /\ tokens' \subseteq tokens
    BY <1>4, PhaseSetIs DEF Denied, parent_denied_in_subscope, Pending, invalidate_all_tokens
  <2>2. Populated(t) => Live(t)
    BY <2>1 DEF TransitInv, Rooms, PopulatedOpen
  <2>3. Rooms'
    BY <1>1, <1>4, <2>1, <2>2, RoomsPhase DEF TransitInv
  <2>4. TokensUsable'
    BY <1>1, <1>4, <2>1, TokensPhase DEF TransitInv
  <2>5. JobHome'
    BY <1>4 DEF JobHome
  <2> QED BY <2>3, <2>4, <2>5 DEF TransitInv
<1>5. CASE /\ xfer' = xfer /\ tokens' = tokens /\ job'.pass.on
           /\ job'.pc \in {"recover", "return", "commit"}
  <2>1. SameRows
    BY <1>5 DEF SameRows
  <2>2. JobHome'
    BY <1>5 DEF JobHome
  <2> QED BY <1>1, <1>5, <2>1, <2>2, RoomsStill, TokensStill DEF TransitInv
<1>6. ASSUME NEW pc \in PCs, job' = [job EXCEPT !.pc = pc, !.t = t, !.pass.todo = @ \ {t}]
      PROVE  job'.pc = pc /\ job'.t = t /\ job'.pass.on
  BY <1>2, <1>6 DEF Jobs, Passes
<1>7. ASSUME job' = [job EXCEPT !.pass.todo = @ \ {t}, !.pass.kept = @ \cup {t}]
      PROVE  job'.pc = "recover" /\ job'.pass.on
  BY <1>a, <1>2, <1>7 DEF Jobs, Passes
<1>8. {"drop", "abandon", "return", "commit"} \subseteq PCs
  BY DEF PCs
<1>9. CASE /\ Pending(t) /\ MayRetire(t) /\ UNCHANGED <<xfer, tokens>>
           /\ \E pc \in {"drop", "abandon"} :
                job' = [job EXCEPT !.pc = pc, !.t = t, !.pass.todo = @ \ {t}]
  BY <1>3, <1>6, <1>8, <1>9
<1>10. CASE /\ xfer[t].phase = "child_activated" /\ cas_transfer(t, "child_terminal")
            /\ invalidate_all_tokens(t)
            /\ job' = [job EXCEPT !.pc = "return", !.t = t, !.pass.todo = @ \ {t}]
  BY <1>4, <1>6, <1>8, <1>10
<1>11. CASE /\ UNCHANGED <<xfer, tokens>>
            /\ \/ job' = [job EXCEPT !.pass.todo = @ \ {t}, !.pass.kept = @ \cup {t}]
               \/ \E pc \in {"return", "commit"} :
                    job' = [job EXCEPT !.pc = pc, !.t = t, !.pass.todo = @ \ {t}]
  BY <1>5, <1>6, <1>7, <1>8, <1>11
<1> QED BY <1>9, <1>10, <1>11 DEF RecoverOne, Pending

\* The end of a pass, a crash, and all that goes on beside the call.
LEMMA TransitBeside ==
  ASSUME ScopeInv, TransitInv,
         \/ EndRecovery \/ Crash \/ BeginDeletion \/ BeginShutdown
         \/ \E t \in Transfers : Exit(t)
         \/ \E m \in Mutators :
              \/ \E l \in Leases, T \in Targets : AcquirePermit(m, l, T)
              \/ Revalidate(m) \/ Mutate(m) \/ ReleasePermit(m)
         \/ UNCHANGED vars
  PROVE  TransitInv'
<1> USE Facts
<1>1. lease' = lease /\ xfer' = xfer /\ tokens' \subseteq tokens
  BY DEF EndRecovery, Crash, BeginDeletion, BeginShutdown, Exit, AcquirePermit, Revalidate,
         Mutate, ReleasePermit, durable, vars
<1>2. NoNewcomer /\ SameRows
  <2>1. SameRows
    BY <1>1 DEF SameRows
  <2>2. ASSUME NEW t \in Transfers, Exit(t) PROVE NoNewcomer
    BY <2>2 DEF Exit, NoNewcomer, Populated, Tables, Boxes
  <2>3. box' = box => NoNewcomer
    BY DEF NoNewcomer, Populated
  <2> QED BY <2>1, <2>2, <2>3 DEF EndRecovery, Crash, BeginDeletion, BeginShutdown,
             AcquirePermit, Revalidate, Mutate, ReleasePermit, durable, vars
<1>3. JobHome'
  <2>1. CASE EndRecovery
    BY <2>1 DEF EndRecovery, NoJob, JobHome
  <2>2. CASE Crash
    BY <2>2 DEF Crash, JobHome
  <2>3. CASE job' = job
    <3>1. job.pc \notin {"idle", "recover"} => (~Populated(job.t) => ~Populated(job.t)')
      BY <1>2, <2>3 DEF NoNewcomer, Populated
    <3> QED BY <1>1, <2>3, <3>1 DEF TransitInv, JobHome, Pending
  <2> QED BY <2>1, <2>2, <2>3 DEF BeginDeletion, BeginShutdown, Exit, AcquirePermit,
             Revalidate, Mutate, ReleasePermit, durable, vars
<1> QED BY <1>1, <1>2, <1>3, RoomsStill, TokensStill DEF TransitInv

\* The pending transfers are in order after every step.
LEMMA TransitNext ==
  ASSUME ScopeInv, PermitsCover, TransitInv, Tractable, [Next]_vars
  PROVE  TransitInv'
<1>1. CASE TransferStep
  BY <1>1, TransitBefore, TransitExclude, TransitActivate, TransitAbandon, TransitUnwind
     DEF TransferStep
<1>2. CASE ReturnStep
  BY <1>2, TransitBarrier, TransitRelease, TransitParent, TransitClose DEF ReturnStep
<1> QED BY <1>1, <1>2, TransitPrepare, TransitTerminal, TransitRecover, TransitBeside DEF Next
-----------------------------------------------------------------------------
(* What every step leaves alone *)

\* But for an activation, leases only move or end.
LEMMA MovesNext ==
  ASSUME ScopeInv, [Next]_vars, ~ActivateChild
  PROVE  LeasesMove
<1> USE Facts
<1>0. lease' = lease => LeasesMove
  BY DEF LeasesMove, Exists, Live
<1>a. /\ \A l \in Leases : lease[l].state \in {"transferring", "returning"} => Live(l)
      /\ \A t \in Transfers : restored_state(t) \in States \ {"none"}
      /\ "active" \in States \ {"none"}
      /\ job.pc \notin {"idle", "recover"} => job.t \in Transfers /\ xfer[job.t].parent \in Leases
  BY DEF Live, restored_state, States
<1>1. CASE TransferStep
  <2>1. CASE Unwind
    BY <1>0, <1>a, <2>1, MoveOne DEF Unwind, JobAt
  <2> QED BY <1>0, <1>1, <2>1 DEF TransferStep, Drain, ReservePermit, CreateContainment,
             AttachOwnership, ReleaseUserCode, DropPermit, ExcludeParent, Abandon, durable
<1>2. CASE ReturnStep
  <2>1. CASE ReturnChild
    BY <1>0, <1>a, <2>1, ReleaseOne DEF ReturnChild, JobAt
  <2>2. CASE ReturnParent
    BY <1>0, <1>a, <2>2, ReturnOne DEF ReturnParent, JobAt
  <2>3. CASE RestoreLease
    <3>1. lease[xfer[job.t].parent].state = "returning"
      BY <2>3 DEF RestoreLease, JobAt, ScopeInv, JobOrder
    <3> QED BY <1>0, <1>a, <2>3, <3>1, MoveOne DEF RestoreLease, JobAt
  <2> QED BY <1>0, <1>2, <2>1, <2>2, <2>3 DEF ReturnStep, ReturnBarrier, ReturnPermit,
             RestorePhase, Commit, durable
<1>3. ASSUME NEW t \in Transfers, NEW l \in Leases, NEW S \in Scopes, Prepare(t, l, S)
      PROVE  LeasesMove
  BY <1>3, PrepareOne
<1>4. CASE lease' = lease
  BY <1>0, <1>4
<1> QED BY <1>1, <1>2, <1>3, <1>4 DEF Next, ChildTerminal, BeginReturn, Exit, RecoverOne,
           EndRecovery, Crash, BeginDeletion, BeginShutdown, AcquirePermit, Revalidate, Mutate,
           ReleasePermit, durable, vars

\* So live leases stay nested, and the lines of leases that exist stay.
LEMMA NestedNext ==
  ASSUME ScopeInv, ScopeInv', Nested, Tractable, [Next]_vars
  PROVE  /\ Nested'
         /\ \A k \in Leases : Exists(k) => Exists(k)' /\ Line(lease', k) = Line(lease, k)
<1>1. CASE ActivateChild
  BY <1>1, NestedActivate, ActivateLines DEF Tractable
<1>2. CASE ~ActivateChild
  BY <1>2, MovesNext, NestedMove DEF LeasesMove
<1> QED BY <1>1, <1>2

\* A transfer that has begun keeps its scope.
LEMMA ScopesKept ==
  ASSUME ScopeInv, Tractable, [Next]_vars
  PROVE  \A u \in Transfers : xfer[u].phase # "none" => xfer'[u].scope = xfer[u].scope
<1> USE Facts
<1> DEFINE Kept == \A u \in Transfers : xfer[u].phase # "none" => xfer'[u].scope = xfer[u].scope
<1> SUFFICES Kept
  OBVIOUS
<1>1. xfer' = xfer => Kept
  OBVIOUS
<1>2. ASSUME NEW t \in Transfers, NEW p \in PhaseSet, cas_transfer(t, p) PROVE Kept
  BY <1>2, PhaseUpdate DEF Tables
<1>3. /\ {"parent_excluded", "child_terminal", "committed", "parent_restored"} \subseteq PhaseSet
      /\ job.pc \notin {"idle", "recover"} => job.t \in Transfers
  BY PhaseSetIs
<1>4. CASE AttachOwnership
  <2>1. CASE xfer' = [xfer EXCEPT ![job.t].attached = TRUE]
    BY <1>3, <1>4, <2>1 DEF AttachOwnership, JobAt, Tables, TransferRecords
  <2> QED BY <1>1, <1>4, <2>1 DEF AttachOwnership
<1>5. CASE ActivateChild
  <2>1. PICK t \in Transfers : t = job.t
    BY <1>5 DEF ActivateChild, JobAt
  <2>2. PICK l \in Leases : l = xfer[t].parent
    OBVIOUS
  <2> QED BY <1>5, <2>1, <2>2, ActivateOne DEF Tractable
<1>6. ASSUME NEW t \in Transfers, NEW l \in Leases, NEW S \in Scopes, Prepare(t, l, S)
      PROVE  Kept
  BY <1>6, PrepareOne
<1>7. ASSUME NEW t \in Transfers, RecoverOne(t) PROVE Kept
  BY <1>1, <1>2, <1>3, <1>7 DEF RecoverOne
<1> HIDE DEF Kept
<1>8. CASE TransferStep
  BY <1>1, <1>2, <1>3, <1>4, <1>5, <1>8 DEF TransferStep, Drain, ReservePermit,
     CreateContainment, ReleaseUserCode, DropPermit, ExcludeParent, Abandon, Unwind, JobAt,
     durable
<1>9. CASE ReturnStep
  BY <1>1, <1>2, <1>3, <1>9 DEF ReturnStep, ReturnBarrier, ReturnPermit, ReturnChild,
     ReturnParent, RestoreLease, RestorePhase, Commit, JobAt, durable
<1>10. ASSUME NEW t \in Transfers, ChildTerminal(t) PROVE Kept
  BY <1>1, <1>2, <1>3, <1>10 DEF ChildTerminal
<1> QED BY <1>1, <1>6, <1>7, <1>8, <1>9, <1>10 DEF Next, BeginReturn, Exit, EndRecovery,
           Crash, BeginDeletion, BeginShutdown, AcquirePermit, Revalidate, Mutate,
           ReleasePermit, durable, vars

\* Only a creation populates a containment, and a step that empties one leaves the
\* leases and the rows alone.
LEMMA BoxNext ==
  ASSUME ScopeInv, [Next]_vars
  PROVE  \/ box' = box
         \/ /\ CreateContainment /\ job.t \in Transfers
            /\ box' = [box EXCEPT ![job.t] = "populated"]
         \/ NoNewcomer /\ lease' = lease /\ SameRows
<1> USE Facts
<1>1. CASE CreateContainment
  BY <1>1 DEF CreateContainment, JobAt
<1>2. CASE AttachOwnership \/ ReleaseUserCode
  <2>1. job.t \in Transfers /\ lease' = lease
    BY <1>2 DEF AttachOwnership, ReleaseUserCode, JobAt, durable
  <2>2. box' = box \/ (box' = [box EXCEPT ![job.t] = "empty"] /\ xfer' = xfer)
    BY <1>2 DEF AttachOwnership, ReleaseUserCode, terminate, durable
  <2> QED BY <2>1, <2>2 DEF NoNewcomer, Populated, SameRows, Tables, Boxes
<1>3. ASSUME NEW t \in Transfers, Exit(t) PROVE NoNewcomer /\ lease' = lease /\ SameRows
  BY <1>3 DEF Exit, durable, NoNewcomer, Populated, SameRows, Tables, Boxes
<1>4. CASE TransferStep
  BY <1>1, <1>2, <1>4 DEF TransferStep, Drain, ReservePermit, DropPermit, ExcludeParent,
     ActivateChild, Abandon, Unwind
<1>5. CASE ReturnStep
  BY <1>5 DEF ReturnStep, ReturnBarrier, ReturnPermit, ReturnChild, ReturnParent,
     RestoreLease, RestorePhase, Commit
<1> QED BY <1>3, <1>4, <1>5 DEF Next, Prepare, ChildTerminal, BeginReturn, RecoverOne,
           EndRecovery, Crash, BeginDeletion, BeginShutdown, AcquirePermit, Revalidate,
           Mutate, ReleasePermit, vars

MutationPermits == {p \in permits : p.kind = "mutation"}
Mutating(m) == \/ \E l \in Leases, T \in Targets : AcquirePermit(m, l, T)
               \/ Revalidate(m) \/ Mutate(m) \/ ReleasePermit(m)

\* Calls leave mutations and their permits alone, and add no permit of one.
LEMMA PermitsNext ==
  ASSUME ScopeInv, [Next]_vars, \A m \in Mutators : ~Mutating(m)
  PROVE  MutationPermits' = MutationPermits /\ (mut' = mut \/ Crash)
<1> DEFINE Kept == MutationPermits' = MutationPermits
<1> SUFFICES Kept /\ (mut' = mut \/ Crash)
  OBVIOUS
<1>1. permits' = permits => Kept
  BY DEF MutationPermits
<1>2. permits' = permits \ Execution(job.t) => Kept
  BY DEF Execution, MutationPermits
<1>3. ASSUME NEW R, permits' = permits \cup {[kind |-> "execution", id |-> job.t, root |-> R]}
      PROVE  Kept
  BY <1>3 DEF MutationPermits
<1> HIDE DEF Kept
<1>4. CASE TransferStep
  <2>1. CASE ReservePermit
    BY <1>1, <1>3, <2>1 DEF ReservePermit
  <2>2. CASE DropPermit
    BY <1>1, <1>2, <2>2 DEF DropPermit
  <2> QED BY <1>1, <1>4, <2>1, <2>2 DEF TransferStep, Drain, CreateContainment,
             AttachOwnership, ReleaseUserCode, ExcludeParent, ActivateChild, Abandon, Unwind,
             durable
<1>5. CASE ReturnStep
  <2>1. CASE ReturnPermit
    BY <1>1, <1>2, <2>1 DEF ReturnPermit
  <2> QED BY <1>1, <1>5, <2>1 DEF ReturnStep, ReturnBarrier, ReturnChild, ReturnParent,
             RestoreLease, RestorePhase, Commit, durable
<1>6. CASE permits' = permits /\ (mut' = mut \/ Crash)
  BY <1>1, <1>6
<1> QED BY <1>4, <1>5, <1>6 DEF Next, Mutating, Prepare, ChildTerminal, BeginReturn, Exit,
           RecoverOne, EndRecovery, Crash, BeginDeletion, BeginShutdown, durable, vars
-----------------------------------------------------------------------------
(* Mutations *)

\* What a step of a mutation does.
LEMMA MutateOne ==
  ASSUME ScopeInv, NEW m \in Mutators, Mutating(m)
  PROVE  /\ UNCHANGED <<lease, xfer, box, tokens, job>>
         /\ mut'[m].pc # "idle" =>
              \/ /\ mut'[m].target = mut[m].target /\ mut'[m].lease = mut[m].lease
                 /\ mut[m].pc # "idle" /\ permits' = permits
              \/ /\ Exists(mut'[m].lease) /\ mut'[m].target \in Targets /\ job.pc = "idle"
                 /\ permits' = permits \cup {[kind |-> "mutation", id |-> m, root |-> mut'[m].target]}
         /\ mut'[m].pc = "checked" =>
              /\ mut[m].pc = "held" /\ mut'[m].target = mut[m].target
              /\ mut'[m].lease = mut[m].lease
              /\ validate_token(mut[m].lease, mut[m].gen)
              /\ allows_path(mut[m].lease, mut[m].target)
         /\ mut'[m].pc = "idle" => \A p \in permits : p.id # m => p \in permits'
         /\ \A n \in Mutators \ {m} : mut'[n] = mut[n]
         /\ job.pc # "idle" => permits' \subseteq permits
<1>0. mut \in Mutations
  BY OtherTypes
<1>1. ASSUME NEW l \in Leases, NEW T \in Targets, AcquirePermit(m, l, T)
      PROVE  /\ mut'[m] = [pc |-> "held", lease |-> l, gen |-> lease[l].gen, target |-> T]
             /\ \A n \in Mutators \ {m} : mut'[n] = mut[n]
             /\ Exists(l) /\ job.pc = "idle"
             /\ UNCHANGED <<lease, xfer, box, tokens, job>>
             /\ permits' = permits \cup {[kind |-> "mutation", id |-> m, root |-> T]}
  BY <1>0, <1>1, Facts DEF AcquirePermit, validate_token, TokensFit, Mutations, Free
<1>2. ASSUME Revalidate(m) \/ Mutate(m)
      PROVE  /\ \E pc \in {"checked", "done"} : mut' = [mut EXCEPT ![m].pc = pc]
             /\ UNCHANGED <<permits, lease, xfer, box, tokens, job>>
             /\ mut[m].pc \in {"held", "checked"}
  BY <1>2 DEF Revalidate, Mutate, durable
<1>3. ASSUME ReleasePermit(m)
      PROVE  /\ mut'[m] = NoMutation /\ \A n \in Mutators \ {m} : mut'[n] = mut[n]
             /\ UNCHANGED <<lease, xfer, box, tokens, job>>
             /\ permits' \subseteq permits /\ \A p \in permits : p.id # m => p \in permits'
  BY <1>0, <1>3 DEF ReleasePermit, Mutations
<1>4. ASSUME NEW pc \in {"checked", "done"}, mut' = [mut EXCEPT ![m].pc = pc]
      PROVE  /\ mut'[m].pc = pc /\ mut'[m].target = mut[m].target
             /\ mut'[m].lease = mut[m].lease /\ \A n \in Mutators \ {m} : mut'[n] = mut[n]
  BY <1>0, <1>4 DEF Mutations
<1>5. CASE \E l \in Leases, T \in Targets : AcquirePermit(m, l, T)
  <2>1. PICK l \in Leases, T \in Targets : AcquirePermit(m, l, T)
    BY <1>5
  <2>2. /\ mut'[m] = [pc |-> "held", lease |-> l, gen |-> lease[l].gen, target |-> T]
        /\ \A n \in Mutators \ {m} : mut'[n] = mut[n]
        /\ Exists(l) /\ job.pc = "idle"
        /\ UNCHANGED <<lease, xfer, box, tokens, job>>
        /\ permits' = permits \cup {[kind |-> "mutation", id |-> m, root |-> T]}
    BY <1>1, <2>1
  <2>3. mut'[m].pc = "held" /\ mut'[m].lease = l /\ mut'[m].target = T
    BY <2>2
  <2> QED BY <2>2, <2>3
<1>6. CASE Revalidate(m)
  <2>1. CASE /\ validate_token(mut[m].lease, mut[m].gen)
             /\ allows_path(mut[m].lease, mut[m].target)
             /\ mut' = [mut EXCEPT ![m].pc = "checked"]
    BY <1>2, <1>4, <1>6, <2>1 DEF Revalidate
  <2>2. CASE mut' = [mut EXCEPT ![m].pc = "done"]
    BY <1>2, <1>4, <1>6, <2>2
  <2> QED BY <1>6, <2>1, <2>2 DEF Revalidate
<1>7. CASE Mutate(m)
  <2>1. mut' = [mut EXCEPT ![m].pc = "done"]
    BY <1>7 DEF Mutate
  <2> QED BY <1>2, <1>4, <1>7, <2>1
<1>8. CASE ReleasePermit(m)
  BY <1>3, <1>8 DEF NoMutation
<1> QED BY <1>5, <1>6, <1>7, <1>8 DEF Mutating

\* The permit of a mutation stays.
LEMMA HeldNext ==
  ASSUME ScopeInv, ScopeInv', Nested, PermitHeld, Tractable, [Next]_vars
  PROVE  PermitHeld'
<1> DEFINE permit(m, T) == [kind |-> "mutation", id |-> m, root |-> T]
<1>0. mut \in Mutations /\ \A k \in Leases : Exists(k) => Exists(k)'
  BY OtherTypes, NestedNext
<1>1. CASE \A m \in Mutators : ~Mutating(m)
  <2>1. MutationPermits' = MutationPermits /\ (mut' = mut \/ Crash)
    BY <1>1, PermitsNext
  <2>2. CASE Crash
    BY <2>2 DEF Crash, PermitHeld, NoMutation
  <2>3. CASE mut' = mut
    <3> SUFFICES ASSUME NEW m \in Mutators, mut[m].pc # "idle"
                 PROVE  /\ permit(m, mut[m].target) \in permits'
                        /\ Exists(mut[m].lease)' /\ mut[m].target \in Targets
      BY <2>3 DEF PermitHeld
    <3>1. /\ permit(m, mut[m].target) \in permits /\ Exists(mut[m].lease)
          /\ mut[m].target \in Targets /\ mut[m].lease \in Leases
      BY <1>0 DEF PermitHeld, Mutations
    <3>2. permit(m, mut[m].target) \in MutationPermits
      BY <3>1 DEF MutationPermits
    <3>3. permit(m, mut[m].target) \in permits'
      BY <2>1, <3>2 DEF MutationPermits
    <3>4. Exists(mut[m].lease)'
      BY <1>0, <2>3, <3>1 DEF Exists
    <3> QED BY <3>1, <3>3, <3>4
  <2> QED BY <2>1, <2>2, <2>3
<1>2. ASSUME NEW m \in Mutators, Mutating(m) PROVE PermitHeld'
  <2>0. lease' = lease
    BY <1>2, MutateOne
  <2> SUFFICES ASSUME NEW n \in Mutators, mut'[n].pc # "idle"
               PROVE  /\ permit(n, mut'[n].target) \in permits'
                      /\ lease'[mut'[n].lease].state # "none" /\ mut'[n].target \in Targets
    BY DEF PermitHeld, Exists
  <2>1. CASE n = m
    <3>1. \/ /\ mut'[m].target = mut[m].target /\ mut'[m].lease = mut[m].lease
             /\ mut[m].pc # "idle" /\ permits' = permits
          \/ /\ Exists(mut'[m].lease) /\ mut'[m].target \in Targets
             /\ permits' = permits \cup {permit(m, mut'[m].target)}
      BY <1>2, <2>1, MutateOne
    <3> QED BY <2>0, <2>1, <3>1 DEF PermitHeld, Exists
  <2>2. CASE n # m
    <3>1. mut'[n] = mut[n] /\ mut[n].pc # "idle"
      BY <1>2, <2>2, MutateOne
    <3>2. /\ permit(n, mut[n].target) \in permits /\ Exists(mut[n].lease)
          /\ mut[n].target \in Targets
      BY <3>1 DEF PermitHeld
    <3>3. permit(n, mut[n].target) \in permits'
      <4>1. CASE mut'[m].pc = "idle"
        BY <1>2, <2>2, <3>2, <4>1, MutateOne
      <4>2. CASE mut'[m].pc # "idle"
        BY <1>2, <3>2, <4>2, MutateOne
      <4> QED BY <4>1, <4>2
    <3> QED BY <2>0, <3>1, <3>2, <3>3 DEF Exists
  <2> QED BY <2>1, <2>2
<1> QED BY <1>1, <1>2

\* The call gets behind the drain barrier only when no permit blocks it.
LEMMA JobDrains ==
  ASSUME ScopeInv, [Next]_vars, job'.pc \in {"permit", "create"}
  PROVE  /\ xfer' = xfer /\ job'.t = job.t
         /\ job.pc \in {"permit", "create"} \/ (Drain /\ blocking_permits(job.t) = {})
<1> USE Facts
<1>1. \A pc \in PCs : Goto(pc) => job'.pc = pc /\ job'.t = job.t
  BY GotoJob DEF GoesOn
<1>2. {"drain", "permit", "create", "attach", "release", "drop", "exclude", "activate",
       "abandon", "unwind", "ret_permit", "ret_child", "ret_parent", "ret_lease", "ret_phase",
       "commit"} \subseteq PCs
  BY DEF PCs
<1>3. (job.t \in Transfers /\ (Return \/ Keep)) => FALSE
  BY CallEnds DEF Ends
<1>4. job.pc \notin {"idle", "recover"} => job.t \in Transfers
  OBVIOUS
<1>5. CASE TransferStep
  <2>1. CASE Drain
    BY <1>1, <1>2, <2>1 DEF Drain, durable
  <2>2. CASE ReservePermit
    BY <1>1, <1>2, <2>2 DEF ReservePermit, JobAt
  <2> QED BY <1>1, <1>2, <1>3, <1>4, <1>5, <2>1, <2>2 DEF TransferStep, CreateContainment,
       AttachOwnership, ReleaseUserCode, DropPermit, ExcludeParent, ActivateChild, Abandon,
       Unwind, JobAt
<1>6. CASE ReturnStep
  BY <1>1, <1>2, <1>3, <1>4, <1>6 DEF ReturnStep, ReturnBarrier, ReturnPermit, ReturnChild,
     ReturnParent, RestoreLease, RestorePhase, Commit, JobAt
<1>7. CASE \E t \in Transfers : RecoverOne(t)
  <2>1. job.pass.todo \subseteq Transfers /\ job.pass.todo # {} /\ job.pc = "recover"
    BY <1>7 DEF RecoverOne, Jobs, Passes, JobAt
  <2>2. ASSUME NEW t, NEW pc, job' = [job EXCEPT !.pc = pc, !.t = t, !.pass.todo = @ \ {t}]
        PROVE  job'.pc = pc
    BY <2>2 DEF Jobs
  <2>3. ASSUME NEW t, job' = [job EXCEPT !.pass.todo = @ \ {t}, !.pass.kept = @ \cup {t}]
        PROVE  job'.pc = "recover"
    BY <2>1, <2>3 DEF Jobs
  <2>4. \E t : \/ \E pc \in {"drop", "abandon", "return", "commit"} :
                    job' = [job EXCEPT !.pc = pc, !.t = t, !.pass.todo = @ \ {t}]
               \/ job' = [job EXCEPT !.pass.todo = @ \ {t}, !.pass.kept = @ \cup {t}]
    BY <1>7 DEF RecoverOne
  <2> QED BY <2>2, <2>3, <2>4
<1>8. CASE job' = job /\ xfer' = xfer
  BY <1>8
<1>9. ASSUME \/ \E t \in Transfers, l \in Leases, S \in Scopes : Prepare(t, l, S)
             \/ \E t \in Transfers : ChildTerminal(t) \/ BeginReturn(t)
             \/ EndRecovery \/ Crash
      PROVE  FALSE
  <2>1. ASSUME NEW t, NEW l, NEW S, Prepare(t, l, S) PROVE job'.pc = "drain"
    BY <2>1 DEF Prepare, NoJob
  <2>2. ASSUME NEW t, ChildTerminal(t) PROVE job'.pc = "idle"
    BY <2>2 DEF ChildTerminal, Free
  <2>3. ASSUME NEW t, BeginReturn(t) PROVE job'.pc = "return"
    BY <2>3 DEF BeginReturn, NoJob
  <2>4. ASSUME EndRecovery \/ Crash PROVE job'.pc \in {"idle", "recover"}
    BY <2>4 DEF EndRecovery, Crash, NoJob
  <2> QED BY <1>9, <2>1, <2>2, <2>3, <2>4
<1>10. ASSUME \/ \E t \in Transfers : Exit(t)
              \/ BeginDeletion \/ BeginShutdown
              \/ \E m \in Mutators :
                   \/ \E l \in Leases, T \in Targets : AcquirePermit(m, l, T)
                   \/ Revalidate(m) \/ Mutate(m) \/ ReleasePermit(m)
              \/ UNCHANGED vars
       PROVE  job' = job /\ xfer' = xfer
  BY <1>10 DEF Exit, BeginDeletion, BeginShutdown, AcquirePermit, Revalidate, Mutate,
               ReleasePermit, durable, vars
<1> QED BY <1>5, <1>6, <1>7, <1>8, <1>9, <1>10 DEF Next

\* Behind the barrier no mutation gets a permit.
LEMMA DrainedNext ==
  ASSUME ScopeInv, Drained, [Next]_vars
  PROVE  Drained'
<1> SUFFICES ASSUME job'.pc \in {"permit", "create"}, NEW p \in permits', p.kind = "mutation"
             PROVE  p.root \cap xfer'[job'.t].scope = {}
  BY DEF Drained
<1>1. /\ xfer' = xfer /\ job'.t = job.t
      /\ job.pc \in {"permit", "create"} \/ (Drain /\ blocking_permits(job.t) = {})
  BY JobDrains
<1>2. p \in permits
  <2>1. CASE \A m \in Mutators : ~Mutating(m)
    BY <2>1, PermitsNext DEF MutationPermits
  <2>2. CASE \E m \in Mutators : Mutating(m)
    <3>1. PICK m \in Mutators : Mutating(m)
      BY <2>2
    <3>2. job.pc # "idle"
      BY <1>1 DEF Drain, JobAt
    <3> QED BY <3>1, <3>2, MutateOne
  <2> QED BY <2>1, <2>2
<1>3. CASE job.pc \in {"permit", "create"}
  BY <1>1, <1>2, <1>3 DEF Drained
<1>4. CASE blocking_permits(job.t) = {}
  BY <1>1, <1>2, <1>4 DEF blocking_permits
<1> QED BY <1>1, <1>3, <1>4

\* A mutation that is checked: it has a token of a live lease that may go there,
\* so a containment of another line that reaches into its target lies below what
\* the lease has handed out, and the target would lie below that.
LEMMA CheckedStaysHome ==
  ASSUME ScopeInv, TransitInv, Nested, PermitsCover, NEW l \in Leases, NEW g, NEW T \in Targets,
         validate_token(l, g), allows_path(l, T),
         NEW t \in Transfers, Populated(t), t \notin Line(lease, l),
         ~(xfer[t].scope \subseteq T) \/ xfer[t].scope = T
  PROVE  T \cap xfer[t].scope = {}
<1> SUFFICES ASSUME T \cap xfer[t].scope # {} PROVE FALSE
  OBVIOUS
<1>1. xfer[t].phase # "none"
  BY DEF PermitsCover, Populated
<1>2. T \subseteq xfer[t].scope
  BY <1>1, ScopesAssumption DEF TransitInv, Rooms, ScopesNamed
<1>3. Live(l) /\ (xfer[t].phase = "prepared" => l # xfer[t].parent)
  BY DEF validate_token, TransitInv, TokensUsable
<1>4. T \subseteq lease[l].scope /\ \A E \in exclusions(l) : ~(T \subseteq E)
  BY DEF allows_path
<1>5. \E E \in exclusions(l) : xfer[t].scope \subseteq E
  BY <1>3, <1>4, Outside DEF TransitInv, Rooms
<1> QED BY <1>2, <1>4, <1>5

\* A checked mutation stays home: the containments that were there when it was
\* checked it may not touch, and none is created over its permit.
LEMMA StaysNext ==
  ASSUME HomeInv, ScopeInv', Tractable, [Next]_vars
  PROVE  StaysHome'
<1> USE Facts DEF HomeInv
<1>0. mut \in Mutations
  BY OtherTypes
<1> SUFFICES ASSUME NEW m \in Mutators, NEW t \in Transfers,
                    mut'[m].pc = "checked", Populated(t)',
                    t \notin Line(lease', mut'[m].lease),
                    ~(xfer'[t].scope \subseteq mut'[m].target) \/ xfer'[t].scope = mut'[m].target
             PROVE  mut'[m].target \cap xfer'[t].scope = {}
  BY DEF StaysHome
<1>1. CASE Mutating(m)
  <2>1. /\ UNCHANGED <<lease, xfer, box>> /\ mut[m].pc = "held"
        /\ mut'[m].target = mut[m].target /\ mut'[m].lease = mut[m].lease
        /\ validate_token(mut[m].lease, mut[m].gen)
        /\ allows_path(mut[m].lease, mut[m].target)
    BY <1>1, MutateOne
  <2>2. mut[m].lease \in Leases /\ mut[m].target \in Targets /\ Populated(t)
    BY <1>0, <2>1 DEF PermitHeld, Mutations, Populated
  <2> QED BY <2>1, <2>2, CheckedStaysHome
<1>2. CASE ~Mutating(m)
  <2>1. mut'[m] = mut[m]
    <3>1. CASE \E n \in Mutators : Mutating(n)
      BY <1>2, <3>1, MutateOne
    <3>2. CASE \A n \in Mutators : ~Mutating(n)
      <4>1. mut' = mut \/ Crash
        BY <3>2, PermitsNext
      <4>2. ~Crash
        BY DEF Crash, NoMutation
      <4> QED BY <4>1, <4>2
    <3> QED BY <3>1, <3>2
  <2>2. /\ mut[m].pc = "checked" /\ mut[m].lease \in Leases /\ Exists(mut[m].lease)
        /\ [kind |-> "mutation", id |-> m, root |-> mut[m].target] \in permits
    BY <1>0, <2>1 DEF PermitHeld, Mutations
  <2>3. Line(lease', mut[m].lease) = Line(lease, mut[m].lease)
    BY <2>2, NestedNext
  <2>4. CASE Populated(t)
    <3>1. xfer[t].phase # "none"
      BY <2>4 DEF PermitsCover, Populated
    <3>2. xfer'[t].scope = xfer[t].scope
      BY <3>1, ScopesKept
    <3> QED BY <2>1, <2>2, <2>3, <2>4, <3>2 DEF StaysHome
  <2>5. CASE ~Populated(t)
    <3>1. CreateContainment /\ t = job.t
      BY <2>5, BoxNext DEF Populated, NoNewcomer, Tables, Boxes
    <3>2. mut[m].target \cap xfer[t].scope = {} /\ xfer' = xfer
      BY <2>2, <3>1 DEF CreateContainment, JobAt, durable, Drained
    <3> QED BY <2>1, <3>2
  <2> QED BY <2>4, <2>5
<1> QED BY <1>1, <1>2

\* The invariant holds when the root lease is opened.
LEMMA HomeInit == Init => HomeInv
<1> SUFFICES ASSUME Init PROVE HomeInv
  OBVIOUS
<1>0. ScopeInv /\ PermitsCover
  BY ScopeInit, CoverInit
<1>1. /\ \A t \in Transfers : /\ xfer[t].phase = "none" /\ box[t] = "none"
                              /\ lease[t].state = "none" /\ t \in Leases /\ t # Root
      /\ tokens = {<<Root, 1>>} /\ lease[Root].state = "active" /\ job = NoJob
  BY DEF Init, NoTransfer, NoLease, Leases, Transfers, Root
<1>2. TransitInv
  <2>1. Rooms
    BY <1>1 DEF Rooms, ScopesNamed, InTransit, PopulatedOpen, Pending, Populated
  <2>2. TokensUsable
    BY <1>1 DEF TokensUsable, Live
  <2>3. JobHome
    BY <1>1 DEF JobHome, NoJob
  <2> QED BY <2>1, <2>2, <2>3 DEF TransitInv
<1>3. Nested
  BY <1>1 DEF Nested, Live
<1>4. PermitHeld /\ StaysHome /\ Drained
  BY <1>1 DEF Init, NoMutation, PermitHeld, StaysHome, Drained, NoJob
<1> QED BY <1>0, <1>2, <1>3, <1>4 DEF HomeInv

\* And after every step.
LEMMA HomeNext ==
  ASSUME HomeInv, Tractable, [Next]_vars
  PROVE  HomeInv'
<1>1. ScopeInv'
  BY ScopeNext DEF HomeInv
<1>2. PermitsCover'
  BY CoverNext DEF HomeInv, Tractable
<1>3. TransitInv'
  BY TransitNext DEF HomeInv
<1>4. Nested'
  BY <1>1, NestedNext DEF HomeInv
<1>5. PermitHeld'
  BY <1>1, HeldNext DEF HomeInv
<1>6. Drained'
  BY DrainedNext DEF HomeInv
<1>7. StaysHome'
  BY <1>1, StaysNext
<1> QED BY <1>1, <1>2, <1>3, <1>4, <1>5, <1>6, <1>7 DEF HomeInv

\* The drain barrier and the token generations together, for every workspace and
\* any number of transfers, mutations and crashes: a mutation that passed its last
\* check never touches a file below a directory whose containment is populated,
\* unless the containment is of its own lease's line. The call's own terminations
\* and the writes of finish_transfer and of abandoning are taken to succeed;
\* creation, proof and every other write may fail.
THEOREM MutationsStayHome ==
  ASSUME {"terminate", "finish", "abandon"} \cap Faults = {}
  PROVE  Spec => []MutationStaysHome
<1>1. HomeInv /\ [Next]_vars => HomeInv'
  BY HomeNext DEF Tractable
<1>2. HomeInv => MutationStaysHome
  <2> SUFFICES ASSUME HomeInv, NEW m \in Mutators, NEW t \in Transfers,
                      mut[m].pc = "checked", Populated(t), t \notin Ancestry(mut[m].lease),
                      ~(xfer[t].scope \subseteq mut[m].target) \/ xfer[t].scope = mut[m].target
               PROVE  mut[m].target \cap xfer[t].scope = {}
    BY DEF MutationStaysHome
  <2>1. mut[m].lease \in Leases
    BY OtherTypes DEF HomeInv, Mutations
  <2>2. Ancestry(mut[m].lease) = Line(lease, mut[m].lease)
    BY <2>1, AncestryIsLine DEF HomeInv
  <2> QED BY <2>2 DEF HomeInv, StaysHome
<1> QED BY <1>1, <1>2, HomeInit, PTL DEF Spec

\* In every state, what a lease can act on is quiet.
LEMMA QuietAll ==
  HomeInv => \A l \in Leases, t \in Transfers :
               (Populated(t) /\ t \notin Line(lease, l)) => Usable(l) \cap xfer[t].scope = {}
BY UsableIsQuiet DEF HomeInv, TransitInv, Rooms

\* After a step too.
LEMMA QuietNext ==
  HomeInv' => (\A l \in Leases, t \in Transfers :
                 (Populated(t) /\ t \notin Line(lease, l)) => Usable(l) \cap xfer[t].scope = {})'
BY QuietAll, PTL

\* "Otherwise recovery retires the transfer and hands the parent back authority
\* the child is still using": by no step, of a transfer, a return, a recovery or a
\* restart, does a lease gain a file where a containment outside its line is
\* populated. The same failures are excluded.
THEOREM GainsAreQuiet ==
  ASSUME {"terminate", "finish", "abandon"} \cap Faults = {}
  PROVE  Spec => GainsQuietFiles
<1> DEFINE Gain == \A l \in Leases, t \in Transfers :
                     (Populated(t) /\ t \notin Ancestry(l)')
                     => (Usable(l)' \ Usable(l)) \cap xfer[t].scope = {}
<1>1. HomeInv /\ [Next]_vars => HomeInv'
  BY HomeNext DEF Tractable
<1>2. HomeInv /\ [Next]_vars => [Gain]_vars
  <2> SUFFICES ASSUME HomeInv, [Next]_vars, NEW l \in Leases, NEW t \in Transfers,
                      Populated(t), t \notin Ancestry(l)'
               PROVE  (Usable(l)' \ Usable(l)) \cap xfer[t].scope = {}
    OBVIOUS
  <2>1. HomeInv' /\ ScopeInv'
    BY <1>1 DEF HomeInv
  <2>2. t \notin Line(lease', l)
    BY <2>1, AncestryNext
  <2>3. CASE Populated(t)'
    <3>1. xfer[t].phase # "none"
      BY DEF HomeInv, PermitsCover, Populated
    <3>2. xfer'[t].scope = xfer[t].scope
      BY <3>1, ScopesKept DEF HomeInv, Tractable
    <3>3. Usable(l)' \cap xfer'[t].scope = {}
      BY <2>1, <2>2, <2>3, QuietNext
    <3> QED BY <3>2, <3>3
  <2>4. CASE ~Populated(t)'
    <3>1. lease' = lease /\ SameRows
      BY <2>4, BoxNext, Facts DEF HomeInv, Populated, Tables, Boxes
    <3>2. exclusions(l)' = exclusions(l)
      BY <3>1 DEF exclusions, parent_denied_in_subscope, SameRows
    <3>3. Usable(l)' = Usable(l)
      BY <3>1, <3>2 DEF Usable, effective_authority
    <3> QED BY <3>3
  <2> QED BY <2>3, <2>4
<1>3. GainsQuietFiles <=> [][Gain]_vars
  BY DEF GainsQuietFiles
<1> QED BY <1>1, <1>2, <1>3, HomeInit, PTL DEF Spec
=============================================================================
