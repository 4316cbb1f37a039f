----------------------------- MODULE UserMapping ----------------------------
(***************************************************************************)
(* Which source user becomes which target user.  Silver derives candidates *)
(* from the user and mail user tables (user_mapping_candidates); gold      *)
(* takes the best candidate of each user (user_map), builds the persons to *)
(* migrate (dim_people) and reports on both.  Each table is recomputed as  *)
(* a whole and reads its sources as they are at that moment: the tables of *)
(* one update need not have read the same state, when another update, left *)
(* running or started by hand, changes silver meanwhile.                   *)
(*                                                                         *)
(* A user row keeps what the matching and the reports look at; names,      *)
(* sizes and the other descriptive columns are left out, and with them the *)
(* mailboxes and drives that make migration_path other than parallel, and  *)
(* migration_status.  Nobody approves by hand.                             *)
(***************************************************************************)
EXTENDS Naturals, FiniteSets

CONSTANTS
    SourceUsers,    \* users of the tenants to migrate from
    TargetUsers,    \* users of the tenants to migrate to
    MailUsers,      \* Exchange mail users
    Employees,      \* employee ids, trimmed and in lower case
    Upns,           \* user principal names, likewise
    Addresses,      \* mail addresses without prefix
    Orgs,           \* organizations
    NoValue,        \* NULL
    Absent,         \* no row
    MaxChanges      \* bound: changes of the silver tables

UserRows ==
    [member : BOOLEAN, employee_id : Employees \cup {NoValue}, upn : Upns,
     proxy_addresses : SUBSET Addresses, licensed : BOOLEAN, org_id : Orgs \cup {NoValue}]

ASSUME MappingAssumption ==
    /\ IsFiniteSet(SourceUsers)
    /\ SourceUsers \cap TargetUsers = {}
    /\ SourceUsers \cap MailUsers = {}
    /\ NoValue \notin SourceUsers \cup TargetUsers \cup MailUsers
    /\ Absent \notin UserRows
    /\ Orgs # {}
    /\ MaxChanges \in Nat

VARIABLES
    users,          \* silver.users
    mail_users,     \* silver.mail_users: their external_email_address
    resources,      \* source users who own a shared, room or equipment mailbox
    candidates,     \* silver.user_mapping_candidates
    user_map,       \* gold tables
    dim_people,
    mapping_issues,
    dim_user,
    analysis,       \* fact_user_mapping_analysis
    current,        \* the gold tables computed since silver last changed
    changes

silver == <<users, mail_users, resources, candidates>>
gold == <<user_map, dim_people, mapping_issues, dim_user, analysis>>
vars == <<silver, gold, current, changes>>

Known(us, ids) == {u \in ids : us[u] # Absent}
Members(us, ids) == {u \in Known(us, ids) : us[u].member}

-----------------------------------------------------------------------------
(* silver.user_mapping_candidates *)

SameEmployee(us, s, t) ==
    us[s].employee_id = us[t].employee_id /\ us[s].employee_id # NoValue

Match(s, t, context, score) ==
    [source |-> s, target |-> t, context |-> context, score |-> score]

MemberPairs(us) == Members(us, SourceUsers) \X Members(us, TargetUsers)

\* Pass 1: employee id and user principal name.
PassOne(us) ==
    {Match(p[1], p[2], "primary_migration", 95) :
        p \in {q \in MemberPairs(us) : /\ SameEmployee(us, q[1], q[2])
                                       /\ us[q[1]].upn = us[q[2]].upn}}

\* Pass 2: employee id only.
PassTwo(us) ==
    {Match(p[1], p[2], "primary_migration", 80) :
        p \in {q \in MemberPairs(us) : SameEmployee(us, q[1], q[2])}}

\* A proxy address of the source user is the address of a mail user.
ExternalLinkage(us, mails) ==
    {Match(p[1], p[2], "external_linkage", 90) :
        p \in {q \in Members(us, SourceUsers) \X Known(mails, MailUsers) :
                  mails[q[2]] \in us[q[1]].proxy_addresses}}

SamePair(m, n) == m.source = n.source /\ m.target = n.target /\ m.context = n.context

\* The best score of each pair in each context.
BestMatches(us, mails) ==
    LET all == PassOne(us) \cup PassTwo(us) \cup ExternalLinkage(us, mails)
    IN {m \in all : \A n \in all : SamePair(m, n) => n.score <= m.score}

\* Mutant: only the targets of the source are counted.
OneTarget(m, all) ==
    \A n \in all : n.context = m.context => (n.source = m.source => n.target = m.target)

\* source_count = 1 and target_count = 1, counted per context.
OneToOne(m, all) ==
    \A n \in all : n.context = m.context => (n.source = m.source <=> n.target = m.target)

AutoApprove == 85

Candidate(m, all) ==
    [match |-> m,
     status |-> IF m.score >= AutoApprove /\ OneToOne(m, all)
                THEN "approved" ELSE "pending_review"]

Candidates(us, mails) ==
    LET best == BestMatches(us, mails) IN {Candidate(m, best) : m \in best}

-----------------------------------------------------------------------------
(* The gold tables *)

\* Rank 1 of a source user in a context: no candidate has a higher score.
BestRank(c, all) ==
    \A d \in all :
        (d.match.source = c.match.source /\ d.match.context = c.match.context) =>
            d.match.score <= c.match.score

\* One candidate per source user and context; created_at is the same for all
\* candidates of an update, so that any of those of highest score may come first.
IsUserMap(map, all) ==
    /\ map \subseteq {c \in all : BestRank(c, all)}
    /\ \A c \in all : \E d \in map : /\ d.match.source = c.match.source
                                     /\ d.match.context = c.match.context
    /\ \A c, d \in map :
          (c.match.source = d.match.source /\ c.match.context = d.match.context) => c = d

\* Mutant: the match of any context is taken.
AnyApproved(all) == {c \in all : c.status = "approved"}

\* The approved candidates of pass 1.
PassOneApproved(all) ==
    {c \in all : /\ c.match.context = "primary_migration"
                 /\ c.match.score = 95
                 /\ c.status = "approved"}

InScope(us, owners) == {s \in Known(us, SourceUsers) \ owners : us[s].licensed}

Person(us, s, t) == [source |-> s, target |-> t, org_id |-> us[s].org_id]

\* A row per user in scope and approved candidate, or one without a target.
People(us, owners, all) ==
    {Person(us, c.match.source, c.match.target) :
        c \in {d \in PassOneApproved(all) : d.match.source \in InScope(us, owners)}}
      \cup {Person(us, s, NoValue) :
               s \in {x \in InScope(us, owners) :
                         \A d \in PassOneApproved(all) : d.match.source # x}}

\* migration_path = 'parallel': another person has the same target.
Parallel(p, people) ==
    p.target # NoValue /\ \E q \in people : q # p /\ q.target = p.target

\* Mutant: users of the source who are guests are passed over.
IssuesOfMembers(us, all) ==
    {[source |-> s, issue |-> "no_primary_migration_match"] :
        s \in {x \in Members(us, SourceUsers) :
                  \A c \in all : c.match.context = "primary_migration" => c.match.source # x}}

\* Source users with several candidates of a context or no primary one.  A best
\* primary score below 70, the third kind of issue, does not exist.
Issues(us, all) ==
    {[source |-> c.match.source, issue |-> "ambiguous_match"] :
        c \in {d \in all : \E e \in all : /\ e # d
                                          /\ e.match.source = d.match.source
                                          /\ e.match.context = d.match.context
                                          /\ d.match.score >= 80 /\ e.match.score >= 80}}
      \cup {[source |-> s, issue |-> "no_primary_migration_match"] :
               s \in {x \in Known(us, SourceUsers) :
                         \A c \in all : c.match.context = "primary_migration" => c.match.source # x}}

\* The source users of dim_user.  Addresses being unique in a tenant, the joins
\* to mailboxes and personal sites add no row.
DimUser(us) == {[source |-> s, org_id |-> us[s].org_id] : s \in Known(us, SourceUsers)}

\* A row per candidate, with the organization of its source user.
Analysis(us, all) ==
    {[match |-> c.match,
      org_id |-> IF us[c.match.source] = Absent THEN NoValue ELSE us[c.match.source].org_id] :
        c \in all}

\* fact_migration_readiness, the user rows: total_count and
\* distinct_mapped_sources of an organization.
TotalCount(o) == Cardinality({r \in dim_user : r.org_id = o})

\* Mutant: candidates are counted, not the users they are for.
CandidatesTotal(o) == Cardinality({r \in analysis : r.org_id = o})

DistinctMappedSources(o) ==
    Cardinality({r.match.source : r \in {x \in analysis : x.org_id = o}})

-----------------------------------------------------------------------------
(* Behaviour *)

Init ==
    /\ users = [u \in SourceUsers \cup TargetUsers |-> Absent]
    /\ mail_users = [m \in MailUsers |-> Absent]
    /\ resources = {}
    /\ candidates = {}
    /\ user_map = {}
    /\ dim_people = {}
    /\ mapping_issues = {}
    /\ dim_user = {}
    /\ analysis = {}
    /\ current = {}
    /\ changes = 0

SilverChanges == changes < MaxChanges /\ changes' = changes + 1 /\ current' = {}

\* A micro-batch of silver upserts a user; no row is ever deleted.
UpsertUser(u, row) ==
    /\ SilverChanges
    /\ users' = [users EXCEPT ![u] = row]
    /\ UNCHANGED <<mail_users, resources, candidates, gold>>

UpsertMailUser(m, address) ==
    /\ SilverChanges
    /\ mail_users' = [mail_users EXCEPT ![m] = address]
    /\ UNCHANGED <<users, resources, candidates, gold>>

\* The mailbox of a source user becomes one of a person or of a resource.
UpsertMailbox(u) ==
    /\ SilverChanges
    /\ resources' = IF u \in resources THEN resources \ {u} ELSE resources \cup {u}
    /\ UNCHANGED <<users, mail_users, candidates, gold>>

\* Silver recomputes the candidates.
MapCandidates ==
    /\ candidates' = Candidates(users, mail_users)
    /\ candidates' # candidates
    /\ current' = {}
    /\ UNCHANGED <<users, mail_users, resources, gold, changes>>

\* Gold recomputes one of its tables.
Computed(name) == name \notin current /\ current' = current \cup {name}

MapUsers ==
    /\ Computed("user_map")
    /\ \E map \in SUBSET candidates : IsUserMap(map, candidates) /\ user_map' = map
    /\ UNCHANGED <<silver, dim_people, mapping_issues, dim_user, analysis, changes>>

ListPeople ==
    /\ Computed("dim_people")
    /\ dim_people' = People(users, resources, candidates)
    /\ UNCHANGED <<silver, user_map, mapping_issues, dim_user, analysis, changes>>

ListIssues ==
    /\ Computed("mapping_issues")
    /\ mapping_issues' = Issues(users, candidates)
    /\ UNCHANGED <<silver, user_map, dim_people, dim_user, analysis, changes>>

ListUsers ==
    /\ Computed("dim_user")
    /\ dim_user' = DimUser(users)
    /\ UNCHANGED <<silver, user_map, dim_people, mapping_issues, analysis, changes>>

Analyze ==
    /\ Computed("fact_user_mapping_analysis")
    /\ analysis' = Analysis(users, candidates)
    /\ UNCHANGED <<silver, user_map, dim_people, mapping_issues, dim_user, changes>>

\* An ordinary row of a user, and rows that differ from it.
Plain(e, n) ==
    [member |-> TRUE, employee_id |-> e, upn |-> n, proxy_addresses |-> Addresses,
     licensed |-> TRUE, org_id |-> CHOOSE o \in Orgs : TRUE]

Readings ==
    {Plain(e, n) : e \in Employees \cup {NoValue}, n \in Upns}
      \cup UNION {{[Plain(e, n) EXCEPT !.member = FALSE],
                   [Plain(e, n) EXCEPT !.licensed = FALSE],
                   [Plain(e, n) EXCEPT !.org_id = NoValue]} : e \in Employees, n \in Upns}

Next ==
    \/ \E u \in SourceUsers \cup TargetUsers, row \in Readings : UpsertUser(u, row)
    \/ \E m \in MailUsers, a \in Addresses \cup {NoValue} : UpsertMailUser(m, a)
    \/ \E u \in SourceUsers : UpsertMailbox(u)
    \/ MapCandidates
    \/ MapUsers \/ ListPeople \/ ListIssues \/ ListUsers \/ Analyze

Spec == Init /\ [][Next]_vars

-----------------------------------------------------------------------------
(* Properties *)

(* No person is listed twice and no two persons share a target, so that    *)
(* migration_path is never 'parallel', though users may have changed since *)
(* the candidates were computed.                                           *)
PersonOnce ==
    /\ \A p, q \in dim_people : p.source = q.source => p = q
    /\ \A p \in dim_people : ~Parallel(p, dim_people)

(* user_map and dim_people, which read the candidates in different ways,   *)
(* agree on who is migrated to whom: rank 1 with status approved is the    *)
(* match of the person.                                                    *)
MapAndPeopleAgree ==
    {"user_map", "dim_people"} \subseteq current =>
        \A p \in dim_people, t \in TargetUsers :
            p.target = t <=>
                \E c \in user_map : /\ c.match.context = "primary_migration"
                                    /\ c.status = "approved"
                                    /\ c.match.source = p.source /\ c.match.target = t

(* No source user is overlooked: each has a row in user_map or an issue.   *)
NobodyLost ==
    {"user_map", "mapping_issues"} \subseteq current =>
        \A s \in Known(users, SourceUsers) :
            \/ \E c \in user_map : /\ c.match.context = "primary_migration"
                                   /\ c.match.source = s
            \/ [source |-> s, issue |-> "no_primary_migration_match"] \in mapping_issues

(* The readiness of an organization never counts more mapped users than it *)
(* has: unmatched_count is not negative.                                   *)
UnmatchedIsACount ==
    {"dim_user", "fact_user_mapping_analysis"} \subseteq current =>
        \A o \in Orgs \cup {NoValue} : TotalCount(o) > 0 => DistinctMappedSources(o) <= TotalCount(o)
=============================================================================
