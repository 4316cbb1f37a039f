---------------------------- MODULE MappingProofs ---------------------------
(***************************************************************************)
(* What the gold tables of the user mapping promise, for any users, ids    *)
(* and organizations.                                                      *)
(*                                                                         *)
(* dim_people does not look at user_map and does not see to it itself that *)
(* its rows are one to one: it relies on silver having approved only       *)
(* candidates that are, which is the invariant, and holds of whatever user *)
(* rows the candidates were computed from.  The counts hold because no     *)
(* user row is ever deleted: the candidates, which may be older than the   *)
(* users, name no user that dim_user lacks.                                *)
(***************************************************************************)
EXTENDS UserMapping, FiniteSetTheorems, TLAPS

\* Approved matches of a context pair their users one to one.
ApprovedOneToOne(all) ==
  \A c, d \in all :
    c.status = "approved" /\ d.match.context = c.match.context =>
      (d.match.source = c.match.source <=> d.match.target = c.match.target)

\* A pair has one candidate per context, of one of the three kinds.
PairOnce(all) == \A c, d \in all : SamePair(c.match, d.match) => c = d
Scored(all) ==
  \A c \in all : /\ c.match.context = "primary_migration" => c.match.score \in {80, 95}
                 /\ c.status = "approved" => c.match.score >= AutoApprove

CandidatesOK(all) == ApprovedOneToOne(all) /\ PairOnce(all) /\ Scored(all)

\* No person twice, no target twice.
People1(people) ==
  /\ \A p, q \in people : p.source = q.source => p = q
  /\ \A p \in people : ~Parallel(p, people)

\* The gold tables that are current are those of the silver tables.
MapOfSilver == "user_map" \in current => IsUserMap(user_map, candidates)
PeopleOfSilver ==
  "dim_people" \in current => dim_people = People(users, resources, candidates)

IssuesOfSilver == "mapping_issues" \in current => mapping_issues = Issues(users, candidates)
UsersOfSilver == "dim_user" \in current => dim_user = DimUser(users)
AnalysisOfSilver ==
  "fact_user_mapping_analysis" \in current => analysis = Analysis(users, candidates)
GoldOfSilver ==
  MapOfSilver /\ PeopleOfSilver /\ IssuesOfSilver /\ UsersOfSilver /\ AnalysisOfSilver

\* Candidates are of source users that silver knows.
SourcesKnown(all, us) == \A c \in all : c.match.source \in Known(us, SourceUsers)

MappingInv ==
  /\ CandidatesOK(candidates) /\ SourcesKnown(candidates, users)
  /\ users \in [SourceUsers \cup TargetUsers -> UserRows \cup {Absent}]
  /\ People1(dim_people) /\ GoldOfSilver

-----------------------------------------------------------------------------
(* What silver approves                                                    *)

LEMMA CandidatesOneToOne ==
  ASSUME NEW us, NEW mails
  PROVE  ApprovedOneToOne(Candidates(us, mails))
<1> DEFINE best == BestMatches(us, mails)
           all == {Candidate(m, best) : m \in best}
<1>1. all = Candidates(us, mails)
  BY DEF Candidates
<1> HIDE DEF best
<1> SUFFICES ASSUME NEW c \in all, NEW d \in all, c.status = "approved",
                    d.match.context = c.match.context
             PROVE  d.match.source = c.match.source <=> d.match.target = c.match.target
  BY <1>1 DEF ApprovedOneToOne
<1>2. PICK m \in best : c = Candidate(m, best)
  OBVIOUS
<1>3. PICK n \in best : d = Candidate(n, best)
  OBVIOUS
<1>4. c.match = m /\ d.match = n /\ (c.status = "approved" => OneToOne(m, best))
  BY <1>2, <1>3 DEF Candidate
<1> QED BY <1>4 DEF OneToOne

\* A match of one of the three kinds.
LEMMA MatchShape ==
  ASSUME NEW us, NEW mails, NEW m \in BestMatches(us, mails)
  PROVE  /\ m = Match(m.source, m.target, m.context, m.score)
         /\ m.score \in {80, 90, 95}
         /\ m.context = "primary_migration" => m.score \in {80, 95}
<1>1. m \in PassOne(us) \cup PassTwo(us) \cup ExternalLinkage(us, mails)
  BY DEF BestMatches
<1>2. CASE m \in PassOne(us)
  BY <1>2 DEF PassOne, Match
<1>3. CASE m \in PassTwo(us)
  BY <1>3 DEF PassTwo, Match
<1>4. CASE m \in ExternalLinkage(us, mails)
  BY <1>4 DEF ExternalLinkage, Match
<1> QED BY <1>1, <1>2, <1>3, <1>4

LEMMA CandidatesAreOK ==
  ASSUME NEW us, NEW mails
  PROVE  CandidatesOK(Candidates(us, mails))
<1> DEFINE best == BestMatches(us, mails)
           all == Candidates(us, mails)
<1>1. ASSUME NEW c \in all
      PROVE  /\ c.match \in best /\ c = Candidate(c.match, best)
             /\ c.status = "approved" => c.match.score >= AutoApprove
  BY <1>1 DEF Candidates, Candidate
<1>2. PairOnce(all)
  <2> SUFFICES ASSUME NEW c \in all, NEW d \in all, SamePair(c.match, d.match) PROVE c = d
    BY DEF PairOnce
  <2> DEFINE m == c.match
             n == d.match
  <2>1. m \in best /\ n \in best
    BY <1>1
  <2>2. n.score <= m.score /\ m.score <= n.score
    BY <2>1 DEF BestMatches, SamePair
  <2>3. m.score = n.score
    BY <2>1, <2>2, MatchShape
  <2>4. m = Match(m.source, m.target, m.context, m.score)
        /\ n = Match(n.source, n.target, n.context, n.score)
    BY <2>1, MatchShape
  <2>5. m = n
    BY <2>3, <2>4 DEF SamePair
  <2> QED BY <1>1, <2>5
<1>3. Scored(all)
  BY <1>1, MatchShape DEF Scored
<1> QED BY <1>2, <1>3, CandidatesOneToOne DEF CandidatesOK

-----------------------------------------------------------------------------
(* Whom gold lists                                                         *)

LEMMA PeopleOneToOne ==
  ASSUME NEW us, NEW owners, NEW all, ApprovedOneToOne(all)
  PROVE  People1(People(us, owners, all))
<1> DEFINE matched == {c \in PassOneApproved(all) : c.match.source \in InScope(us, owners)}
           people == People(us, owners, all)
<1>1. ASSUME NEW p \in people
      PROVE  \/ \E c \in matched : p = Person(us, c.match.source, c.match.target)
             \/ /\ p = Person(us, p.source, NoValue)
                /\ \A c \in PassOneApproved(all) : c.match.source # p.source
  BY <1>1 DEF People, Person
<1>2. ASSUME NEW c \in matched, NEW d \in matched
      PROVE  c.match.source = d.match.source <=> c.match.target = d.match.target
  BY <1>2 DEF PassOneApproved, ApprovedOneToOne
<1>3. ASSUME NEW p \in people, NEW q \in people, p.source = q.source PROVE p = q
  <2>1. CASE \E c \in matched : p = Person(us, c.match.source, c.match.target)
    <3>1. PICK c \in matched : p = Person(us, c.match.source, c.match.target)
      BY <2>1
    <3>2. p.source = c.match.source /\ c \in PassOneApproved(all)
      BY <3>1 DEF Person
    <3>3. PICK d \in matched : q = Person(us, d.match.source, d.match.target)
      BY <1>1, <1>3, <3>2
    <3>4. q.source = d.match.source
      BY <3>3 DEF Person
    <3>5. c.match.source = d.match.source /\ c.match.target = d.match.target
      BY <1>2, <1>3, <3>2, <3>4
    <3> QED BY <3>1, <3>3, <3>5
  <2>2. CASE /\ p = Person(us, p.source, NoValue)
             /\ \A c \in PassOneApproved(all) : c.match.source # p.source
    <3>1. \A d \in matched : q # Person(us, d.match.source, d.match.target)
      BY <2>2, <1>3 DEF Person
    <3>2. q = Person(us, q.source, NoValue)
      BY <1>1, <3>1
    <3> QED BY <2>2, <3>2, <1>3
  <2> QED BY <1>1, <2>1, <2>2
<1>4. ASSUME NEW p \in people PROVE ~Parallel(p, people)
  <2> SUFFICES ASSUME p.target # NoValue, NEW q \in people, q # p, q.target = p.target
               PROVE  FALSE
    BY DEF Parallel
  <2>1. PICK c \in matched : p = Person(us, c.match.source, c.match.target)
    BY <1>1 DEF Person
  <2>2. PICK d \in matched : q = Person(us, d.match.source, d.match.target)
    BY <1>1 DEF Person
  <2>3. c.match.target = d.match.target
    BY <2>1, <2>2 DEF Person
  <2>4. c.match.source = d.match.source
    BY <1>2, <2>3
  <2> QED BY <2>1, <2>2, <2>3, <2>4
<1> QED BY <1>3, <1>4 DEF People1

-----------------------------------------------------------------------------
(* The invariant                                                           *)

\* The sources of the candidates are those of the user rows they are made from.
LEMMA CandidateSources ==
  ASSUME NEW us, NEW mails
  PROVE  SourcesKnown(Candidates(us, mails), us)
<1> SUFFICES ASSUME NEW c \in Candidates(us, mails)
             PROVE  c.match.source \in Known(us, SourceUsers)
  BY DEF SourcesKnown
<1>1. c.match \in BestMatches(us, mails)
  BY DEF Candidates, Candidate
<1>2. c.match \in PassOne(us) \cup PassTwo(us) \cup ExternalLinkage(us, mails)
  BY <1>1 DEF BestMatches
<1>3. CASE c.match \in PassOne(us)
  BY <1>3 DEF PassOne, MemberPairs, Members, Match
<1>4. CASE c.match \in PassTwo(us)
  BY <1>4 DEF PassTwo, MemberPairs, Members, Match
<1>5. CASE c.match \in ExternalLinkage(us, mails)
  BY <1>5 DEF ExternalLinkage, Members, Match
<1> QED BY <1>2, <1>3, <1>4, <1>5

\* What a job reads of a user is a row.
LEMMA ReadingsAreRows == Readings \subseteq UserRows
<1>1. ASSUME NEW e \in Employees \cup {NoValue}, NEW n \in Upns
      PROVE
        /\ Plain(e, n) \in UserRows
        /\ [Plain(e, n) EXCEPT !.member = FALSE] \in UserRows
        /\ [Plain(e, n) EXCEPT !.licensed = FALSE] \in UserRows
        /\ [Plain(e, n) EXCEPT !.org_id = NoValue] \in UserRows
  <2> DEFINE o == CHOOSE x \in Orgs : TRUE
  <2>1. o \in Orgs
    BY MappingAssumption
  <2>2. Plain(e, n) = [member |-> TRUE, employee_id |-> e, upn |-> n,
                       proxy_addresses |-> Addresses, licensed |-> TRUE, org_id |-> o]
    BY DEF Plain
  <2> HIDE DEF o
  <2>3. Plain(e, n) \in UserRows
    BY <2>1, <2>2 DEF UserRows
  <2> DEFINE p == Plain(e, n)
  <2>4. p \in UserRows
    BY <2>3
  <2> HIDE DEF p
  <2>5. [p EXCEPT !.member = FALSE] \in UserRows
    BY <2>4 DEF UserRows
  <2>6. [p EXCEPT !.licensed = FALSE] \in UserRows
    BY <2>4 DEF UserRows
  <2>7. [p EXCEPT !.org_id = NoValue] \in UserRows
    BY <2>4 DEF UserRows
  <2> QED BY <2>4, <2>5, <2>6, <2>7 DEF p
<1>2. ASSUME NEW row \in Readings
      PROVE  \E e \in Employees \cup {NoValue}, n \in Upns :
               row \in {Plain(e, n), [Plain(e, n) EXCEPT !.member = FALSE],
                        [Plain(e, n) EXCEPT !.licensed = FALSE],
                        [Plain(e, n) EXCEPT !.org_id = NoValue]}
  <2>1. CASE row \in {Plain(e, n) : e \in Employees \cup {NoValue}, n \in Upns}
    BY <2>1
  <2>2. CASE row \in UNION {{[Plain(e, n) EXCEPT !.member = FALSE],
                             [Plain(e, n) EXCEPT !.licensed = FALSE],
                             [Plain(e, n) EXCEPT !.org_id = NoValue]} :
                               e \in Employees, n \in Upns}
    <3>1. PICK e \in Employees, n \in Upns :
            row \in {[Plain(e, n) EXCEPT !.member = FALSE],
                     [Plain(e, n) EXCEPT !.licensed = FALSE],
                     [Plain(e, n) EXCEPT !.org_id = NoValue]}
      BY <2>2
    <3> QED BY <3>1
  <2> QED BY <2>1, <2>2 DEF Readings
<1> SUFFICES ASSUME NEW row \in Readings PROVE row \in UserRows
  OBVIOUS
<1>3. PICK e \in Employees \cup {NoValue}, n \in Upns :
        row \in {Plain(e, n), [Plain(e, n) EXCEPT !.member = FALSE],
                 [Plain(e, n) EXCEPT !.licensed = FALSE],
                 [Plain(e, n) EXCEPT !.org_id = NoValue]}
  BY <1>2
<1>4. /\ Plain(e, n) \in UserRows
      /\ [Plain(e, n) EXCEPT !.member = FALSE] \in UserRows
      /\ [Plain(e, n) EXCEPT !.licensed = FALSE] \in UserRows
      /\ [Plain(e, n) EXCEPT !.org_id = NoValue] \in UserRows
  BY <1>1, Zenon
<1> QED BY <1>3, <1>4, Zenon

LEMMA InitMapping == Init => MappingInv
<1> SUFFICES ASSUME Init PROVE MappingInv
  OBVIOUS
<1>1. users \in [SourceUsers \cup TargetUsers -> UserRows \cup {Absent}]
  BY DEF Init
<1> QED BY <1>1 DEF Init, MappingInv, CandidatesOK, ApprovedOneToOne, PairOnce, Scored, People1,
             SourcesKnown, GoldOfSilver, MapOfSilver, PeopleOfSilver, IssuesOfSilver,
             UsersOfSilver, AnalysisOfSilver

\* Whatever changes silver leaves no gold table current.
LEMMA SilverKeepsMapping ==
  ASSUME MappingInv, current' = {}, UNCHANGED dim_people, CandidatesOK(candidates'),
         SourcesKnown(candidates', users'),
         users' \in [SourceUsers \cup TargetUsers -> UserRows \cup {Absent}]
  PROVE  MappingInv'
BY DEF MappingInv, GoldOfSilver, MapOfSilver, PeopleOfSilver, IssuesOfSilver, UsersOfSilver,
       AnalysisOfSilver

\* A gold table is computed, silver stays.
LEMMA GoldKeepsMapping ==
  ASSUME MappingInv, UNCHANGED silver, People1(dim_people'), GoldOfSilver'
  PROVE  MappingInv'
BY DEF MappingInv, silver

LEMMA UserStep ==
  ASSUME MappingInv, NEW u \in SourceUsers \cup TargetUsers, NEW row \in Readings,
         UpsertUser(u, row)
  PROVE  MappingInv'
<1>1. /\ users' = [users EXCEPT ![u] = row] /\ current' = {}
      /\ UNCHANGED <<candidates, dim_people>>
  BY DEF UpsertUser, SilverChanges, gold
<1>2. row \in UserRows /\ row # Absent
  BY ReadingsAreRows, MappingAssumption
<1>3. users \in [SourceUsers \cup TargetUsers -> UserRows \cup {Absent}]
  BY DEF MappingInv
<1>4. users' \in [SourceUsers \cup TargetUsers -> UserRows \cup {Absent}]
  BY <1>1, <1>2, <1>3
<1>5. SourcesKnown(candidates', users')
  BY <1>1, <1>2, <1>3 DEF MappingInv, SourcesKnown, Known
<1>6. CandidatesOK(candidates')
  BY <1>1 DEF MappingInv
<1> QED BY <1>1, <1>4, <1>5, <1>6, SilverKeepsMapping

LEMMA GoldStep ==
  ASSUME MappingInv, MapUsers \/ ListPeople \/ ListIssues \/ ListUsers \/ Analyze
  PROVE  MappingInv'
<1> USE DEF GoldOfSilver, MapOfSilver, PeopleOfSilver, IssuesOfSilver, UsersOfSilver,
            AnalysisOfSilver
<1>1. GoldOfSilver /\ People1(dim_people) /\ CandidatesOK(candidates)
  BY DEF MappingInv
<1>2. UNCHANGED silver /\ UNCHANGED <<users, resources, candidates>>
  BY DEF MapUsers, ListPeople, ListIssues, ListUsers, Analyze, silver
<1>3. CASE MapUsers
  <2>1. /\ IsUserMap(user_map', candidates) /\ current' = current \cup {"user_map"}
        /\ UNCHANGED <<dim_people, mapping_issues, dim_user, analysis>>
    BY <1>3 DEF MapUsers, Computed
  <2> QED BY <1>1, <1>2, <2>1, GoldKeepsMapping
<1>4. CASE ListPeople
  <2>1. /\ dim_people' = People(users, resources, candidates)
        /\ current' = current \cup {"dim_people"}
        /\ UNCHANGED <<user_map, mapping_issues, dim_user, analysis>>
    BY <1>4 DEF ListPeople, Computed
  <2>2. People1(dim_people')
    BY <1>1, <2>1, PeopleOneToOne DEF CandidatesOK
  <2> QED BY <1>1, <1>2, <2>1, <2>2, GoldKeepsMapping
<1>5. CASE ListIssues
  <2>1. /\ mapping_issues' = Issues(users, candidates)
        /\ current' = current \cup {"mapping_issues"}
        /\ UNCHANGED <<user_map, dim_people, dim_user, analysis>>
    BY <1>5 DEF ListIssues, Computed
  <2> QED BY <1>1, <1>2, <2>1, GoldKeepsMapping
<1>6. CASE ListUsers
  <2>1. /\ dim_user' = DimUser(users) /\ current' = current \cup {"dim_user"}
        /\ UNCHANGED <<user_map, dim_people, mapping_issues, analysis>>
    BY <1>6 DEF ListUsers, Computed
  <2> QED BY <1>1, <1>2, <2>1, GoldKeepsMapping
<1>7. CASE Analyze
  <2>1. /\ analysis' = Analysis(users, candidates)
        /\ current' = current \cup {"fact_user_mapping_analysis"}
        /\ UNCHANGED <<user_map, dim_people, mapping_issues, dim_user>>
    BY <1>7 DEF Analyze, Computed
  <2> QED BY <1>1, <1>2, <2>1, GoldKeepsMapping
<1> QED BY <1>3, <1>4, <1>5, <1>6, <1>7

LEMMA NextKeepsMapping == ASSUME MappingInv, [Next]_vars PROVE MappingInv'
<1>1. CASE MapCandidates
  <2>1. /\ candidates' = Candidates(users, mail_users) /\ users' = users
        /\ current' = {} /\ dim_people' = dim_people
    BY <1>1 DEF MapCandidates, gold
  <2>2. CandidatesOK(candidates') /\ SourcesKnown(candidates', users')
    BY <2>1, CandidatesAreOK, CandidateSources
  <2>3. users' \in [SourceUsers \cup TargetUsers -> UserRows \cup {Absent}]
    BY <2>1 DEF MappingInv
  <2> QED BY <2>1, <2>2, <2>3, SilverKeepsMapping
<1>2. CASE \E u \in SourceUsers \cup TargetUsers, row \in Readings : UpsertUser(u, row)
  BY <1>2, UserStep
<1>3. CASE \/ \E m \in MailUsers, a \in Addresses \cup {NoValue} : UpsertMailUser(m, a)
           \/ \E u \in SourceUsers : UpsertMailbox(u)
  <2>1. current' = {} /\ UNCHANGED <<users, candidates, dim_people>>
    BY <1>3 DEF UpsertMailUser, UpsertMailbox, SilverChanges, gold
  <2>2. /\ CandidatesOK(candidates') /\ SourcesKnown(candidates', users')
        /\ users' \in [SourceUsers \cup TargetUsers -> UserRows \cup {Absent}]
    BY <2>1 DEF MappingInv
  <2> QED BY <2>1, <2>2, SilverKeepsMapping
<1>4. CASE UNCHANGED vars
  <2>1. UNCHANGED silver /\ UNCHANGED <<gold, current>>
    BY <1>4 DEF vars
  <2>2. GoldOfSilver' /\ People1(dim_people')
    BY <2>1 DEF silver, gold, MappingInv, GoldOfSilver, MapOfSilver, PeopleOfSilver,
                IssuesOfSilver, UsersOfSilver, AnalysisOfSilver
  <2> QED BY <2>1, <2>2, GoldKeepsMapping
<1> QED BY <1>1, <1>2, <1>3, <1>4, GoldStep DEF Next

LEMMA MappingInvariant == Spec => []MappingInv
BY InitMapping, NextKeepsMapping, PTL DEF Spec

-----------------------------------------------------------------------------
(* Two readings of the candidates                                          *)

\* The approved primary candidates are those of pass 1.
LEMMA ApprovedPrimary ==
  ASSUME NEW all, CandidatesOK(all), NEW c \in all,
         c.match.context = "primary_migration", c.status = "approved"
  PROVE  c \in PassOneApproved(all)
BY DEF CandidatesOK, Scored, PassOneApproved, AutoApprove

\* An approved candidate is the only one of its source user and context, so
\* that rank 1 is this one.
LEMMA ApprovedIsMapped ==
  ASSUME NEW all, CandidatesOK(all), NEW map, IsUserMap(map, all),
         NEW c \in all, c.status = "approved"
  PROVE  c \in map
<1>1. PICK d \in map : d.match.source = c.match.source /\ d.match.context = c.match.context
  BY DEF IsUserMap
<1>2. d \in all
  BY DEF IsUserMap
<1>3. d.match.target = c.match.target
  BY <1>1, <1>2 DEF CandidatesOK, ApprovedOneToOne
<1>4. d = c
  BY <1>1, <1>2, <1>3 DEF CandidatesOK, PairOnce, SamePair
<1> QED BY <1>4

LEMMA Agree ==
  ASSUME NEW us, NEW owners, NEW all, NEW map, CandidatesOK(all), IsUserMap(map, all),
         NEW p \in People(us, owners, all), NEW t \in TargetUsers
  PROVE  p.target = t <=>
           \E c \in map : /\ c.match.context = "primary_migration"
                          /\ c.status = "approved"
                          /\ c.match.source = p.source /\ c.match.target = t
<1>1. \/ \E c \in PassOneApproved(all) : p = Person(us, c.match.source, c.match.target)
      \/ /\ p = Person(us, p.source, NoValue)
         /\ \A c \in PassOneApproved(all) : c.match.source # p.source
  BY DEF People, Person
<1>2. ASSUME p.target = t
      PROVE  \E c \in map : /\ c.match.context = "primary_migration"
                            /\ c.status = "approved"
                            /\ c.match.source = p.source /\ c.match.target = t
  <2>1. t # NoValue
    BY MappingAssumption
  <2>2. PICK c \in PassOneApproved(all) : p = Person(us, c.match.source, c.match.target)
    BY <1>1, <1>2, <2>1 DEF Person
  <2>3. /\ c \in all /\ c.match.context = "primary_migration" /\ c.status = "approved"
        /\ c.match.source = p.source /\ c.match.target = t
    BY <1>2, <2>2 DEF PassOneApproved, Person
  <2>4. c \in map
    BY <2>3, ApprovedIsMapped
  <2> QED BY <2>3, <2>4
<1>3. ASSUME NEW c \in map, c.match.context = "primary_migration", c.status = "approved",
             c.match.source = p.source, c.match.target = t
      PROVE  p.target = t
  <2>1. c \in all
    BY DEF IsUserMap
  <2>2. c \in PassOneApproved(all)
    BY <1>3, <2>1, ApprovedPrimary
  <2>3. PICK d \in PassOneApproved(all) : p = Person(us, d.match.source, d.match.target)
    BY <1>1, <1>3, <2>2
  <2>4. d \in all /\ d.match.context = c.match.context /\ d.match.source = c.match.source
    BY <1>3, <2>3 DEF PassOneApproved, Person
  <2>5. d.match.target = t
    BY <1>3, <2>1, <2>4 DEF CandidatesOK, ApprovedOneToOne
  <2> QED BY <2>3, <2>5 DEF Person
<1> QED BY <1>2, <1>3

-----------------------------------------------------------------------------
(* The theorems                                                            *)

(* No person is listed twice and no two have the same target, for any      *)
(* users, employee ids and addresses.                                      *)
THEOREM PersonOnceHolds == Spec => []PersonOnce
<1>1. MappingInv => PersonOnce
  BY DEF MappingInv, People1, PersonOnce
<1> QED BY <1>1, MappingInvariant, PTL

(* Rank 1 with status approved in user_map is the target of the person in  *)
(* dim_people, and the other way round.                                    *)
THEOREM MapAndPeopleAgreeHolds == Spec => []MapAndPeopleAgree
<1>1. MappingInv => MapAndPeopleAgree
  BY Agree DEF MappingInv, GoldOfSilver, MapOfSilver, PeopleOfSilver, MapAndPeopleAgree
<1> QED BY <1>1, MappingInvariant, PTL

(* Every source user has a row in user_map or an issue that says so, for   *)
(* any users: what ranks the candidates and what looks for those without   *)
(* overlook the same ones.                                                 *)
THEOREM NobodyLostHolds == Spec => []NobodyLost
<1>1. MappingInv => NobodyLost
  <2> SUFFICES ASSUME MappingInv, "user_map" \in current, "mapping_issues" \in current,
                      NEW s \in Known(users, SourceUsers)
               PROVE  \/ \E c \in user_map : /\ c.match.context = "primary_migration"
                                             /\ c.match.source = s
                      \/ [source |-> s, issue |-> "no_primary_migration_match"] \in mapping_issues
    BY DEF NobodyLost
  <2>1. IsUserMap(user_map, candidates) /\ mapping_issues = Issues(users, candidates)
    BY DEF MappingInv, GoldOfSilver, MapOfSilver, IssuesOfSilver
  <2>2. CASE \E c \in candidates : /\ c.match.context = "primary_migration"
                                   /\ c.match.source = s
    BY <2>1, <2>2 DEF IsUserMap
  <2>3. CASE \A c \in candidates : c.match.context = "primary_migration" => c.match.source # s
    BY <2>1, <2>3 DEF Issues
  <2> QED BY <2>2, <2>3
<1> QED BY <1>1, MappingInvariant, PTL

\* The users of an organization, and those of them that have candidates.
LEMMA MappedSources ==
  ASSUME MappingInv, "dim_user" \in current, "fact_user_mapping_analysis" \in current,
         NEW o
  PROVE  DistinctMappedSources(o) <= TotalCount(o)
<1> DEFINE row(s) == [source |-> s, org_id |-> users[s].org_id]
           S == {s \in Known(users, SourceUsers) : users[s].org_id = o}
           T == {r \in dim_user : r.org_id = o}
           D == {r.match.source : r \in {x \in analysis : x.org_id = o}}
           f == [s \in S |-> row(s)]
<1>1. /\ dim_user = {row(s) : s \in Known(users, SourceUsers)}
      /\ analysis = Analysis(users, candidates)
  BY DEF MappingInv, GoldOfSilver, UsersOfSilver, AnalysisOfSilver, DimUser
<1>2. D \subseteq S
  <2> SUFFICES ASSUME NEW r \in analysis, r.org_id = o PROVE r.match.source \in S
    OBVIOUS
  <2>1. PICK c \in candidates :
          /\ r.match = c.match
          /\ r.org_id = IF users[c.match.source] = Absent THEN NoValue
                        ELSE users[c.match.source].org_id
    BY <1>1 DEF Analysis
  <2>2. c.match.source \in Known(users, SourceUsers)
    BY DEF MappingInv, SourcesKnown
  <2> QED BY <2>1, <2>2 DEF Known
<1>3. IsFiniteSet(S)
  BY FS_Subset, MappingAssumption DEF Known
<1>4. \A s \in S : row(s) \in T
  BY <1>1
<1>5. \A r \in T : \E s \in S : row(s) = r
  BY <1>1
<1>6. \A s, z : row(s) = row(z) => s = z
  OBVIOUS
<1> HIDE DEF row, S, T
<1>7. f \in Bijection(S, T)
  BY <1>4, <1>5, <1>6 DEF Bijection, Injection, Surjection, IsInjective
<1>8. ExistsBijection(S, T)
  BY <1>7, Zenon DEF ExistsBijection
<1>9. Cardinality(S) = Cardinality(T)
  BY <1>3, <1>8, FS_Bijection
<1>10. Cardinality(D) <= Cardinality(S)
  BY <1>2, <1>3, FS_Subset
<1> QED BY <1>9, <1>10 DEF DistinctMappedSources, TotalCount, T

(* The users counted as mapped are never more than the organization has,   *)
(* though both counts are of tables derived separately.                    *)
THEOREM UnmatchedIsACountHolds == Spec => []UnmatchedIsACount
<1>1. MappingInv => UnmatchedIsACount
  BY MappedSources DEF UnmatchedIsACount
<1> QED BY <1>1, MappingInvariant, PTL
=============================================================================
