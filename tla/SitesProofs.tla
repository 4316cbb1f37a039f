----------------------------- MODULE SitesProofs ----------------------------
(***************************************************************************)
(* What the three tables promise of each other, for any sites, groups,     *)
(* owners and organizations of a tenant.                                   *)
(*                                                                         *)
(* The invariant says that a gold table, while current, is what its query  *)
(* makes of the tables it reads, and what the rows of silver say of the    *)
(* tenant: an address has one row, and a row has the details of its site   *)
(* or none.  The rest is about the queries: what makes the ids meet is     *)
(* that a site that is not personal falls into one of three kinds once its *)
(* details are known (channel of a team, site of a group, standalone), and *)
(* that shared_data_sets has a row for each of the three.                  *)
(***************************************************************************)
EXTENDS SharedData, FiniteSetTheorems, NaturalsInduction, TLAPS

\* A row whose details were not known, and one that has them.
Unknown(r) ==
  /\ r.hub_site_id = NoValue /\ r.group_id = NoValue /\ r.related_group_id = NoValue
  /\ r.is_teams_connected = NoValue /\ r.is_teams_channel_connected = NoValue
Known(r) ==
  LET k == shape[SiteOf(r)] IN
  /\ r.is_hub_site = k.is_hub /\ r.hub_site_id = k.hub
  /\ r.group_id = k.group /\ r.related_group_id = k.related
  /\ r.teams_channel_type = k.channel
  /\ r.is_teams_channel_connected = (k.channel # 0)
  /\ r.is_teams_connected \in BOOLEAN
  /\ r.is_teams_connected = TRUE => k.group \in Groups

RowOK(r) ==
  /\ SiteOf(r) \in Sites
  /\ IF r.is_hub_site = NoValue THEN Unknown(r) ELSE Known(r)

RowsOK ==
  /\ teamed \subseteq Groups /\ teams \subseteq teamed
  /\ \A s \in Sites : shape[s] \in Shapes(s)
  /\ exo_groups \in [Groups -> BOOLEAN \cup {Absent}]
  /\ \A r \in details : RowOK(r)
  /\ \A r \in sites : RowOK(r)
  /\ \A r, q \in sites : r.address = q.address => r = q
  /\ IsFiniteSet(sites)

DataSetsOfSilver ==
  "shared_data_sets" \in current =>
    \E first \in SUBSET sites : IsPrimary(first) /\ shared_data_sets = SharedDataSets(first)
SitesOfSilver == "dim_sites" \in current => dim_sites = DimSites
OrganizationsOfSilver ==
  "shared_data_set_organizations" \in current => organizations = Organizations

SitesInv == RowsOK /\ DataSetsOfSilver /\ SitesOfSilver /\ OrganizationsOfSilver

-----------------------------------------------------------------------------
(* The details of a site.                                                  *)

(* The group of a site, and of the team its channel belongs to.            *)
LEMMA ShapeOfSite ==
  ASSUME NEW s, NEW k \in Shapes(s)
  PROVE  /\ k.is_hub \in BOOLEAN /\ k.personal \in BOOLEAN
         /\ k.group \in Groups \cup {NoValue} /\ k.related \in Groups \cup {NoValue}
         /\ k.channel \in 0..2
         /\ k.channel # 0 =>
              /\ k.group = NoValue /\ k.related \in Groups
              /\ k.channel \in {1, 2} /\ k.is_hub = FALSE
         /\ k.personal => k.group = NoValue /\ k.channel = 0
<1>1. /\ k.is_hub \in BOOLEAN /\ k.personal \in BOOLEAN
      /\ k.group \in Groups \cup {NoValue}
      /\ k.related \in Groups \cup {NoValue} /\ k.channel \in 0..2
  BY DEF Shapes
<1>2. k.channel # 0 => k.group = NoValue /\ k.related # NoValue /\ ~k.is_hub
  BY DEF Shapes
<1>3. k.channel # 0 => k.channel \in {1, 2}
  BY <1>1
<1>4. k.personal => k.group = NoValue /\ k.channel = 0
  BY DEF Shapes
<1> QED BY <1>1, <1>2, <1>3, <1>4

(* What SharePoint says of a site is known of it.                          *)
LEMMA DetailsAreKnown ==
  ASSUME RowsOK, NEW s \in Sites PROVE RowOK(DetailsOf(s))
<1> DEFINE d == DetailsOf(s)
           k == shape[s]
<1>1. /\ SiteOf(d) = s /\ d.is_hub_site = k.is_hub /\ d.hub_site_id = k.hub
      /\ d.group_id = k.group /\ d.related_group_id = k.related
      /\ d.teams_channel_type = k.channel
      /\ d.is_teams_channel_connected = (k.channel # 0)
      /\ d.is_teams_connected = (k.group \in teamed)
  BY DEF DetailsOf, SiteOf, Address
<1>2. k.is_hub \in BOOLEAN
  BY ShapeOfSite DEF RowsOK
<1>3. d.is_hub_site # NoValue
  BY <1>1, <1>2, SharedDataAssumption
<1>4. d.is_teams_connected \in BOOLEAN /\ (d.is_teams_connected = TRUE => k.group \in Groups)
  <2>1. (k.group \in teamed) \in BOOLEAN
    OBVIOUS
  <2>2. (k.group \in teamed) = TRUE => k.group \in Groups
    BY DEF RowsOK
  <2> HIDE DEF d
  <2> QED BY <1>1, <2>1, <2>2, Zenon
<1> HIDE DEF d
<1>5. RowOK(d)
  BY <1>1, <1>3, <1>4 DEF RowOK, Known
<1> QED BY <1>5 DEF d

(* What a row says once its details are known: a channel has no group of   *)
(* its own and is no hub; a site that is connected to a team has a group.  *)
Detailed(r) ==
  /\ r.is_hub_site \in BOOLEAN /\ r.group_id \in Groups \cup {NoValue}
  /\ r.is_teams_channel_connected \in BOOLEAN
  /\ r.is_teams_channel_connected = TRUE =>
       /\ r.group_id = NoValue /\ r.related_group_id \in Groups
       /\ r.teams_channel_type \in {1, 2} /\ r.is_hub_site = FALSE
  /\ r.group_id = NoValue => r.is_teams_connected = FALSE
  /\ IsPersonal(r) => r.group_id = NoValue /\ r.is_teams_channel_connected = FALSE

LEMMA KnownIsDetailed ==
  ASSUME RowsOK, NEW r \in sites, r.is_hub_site # NoValue
  PROVE  Detailed(r)
<1> DEFINE k == shape[SiteOf(r)]
<1>1. SiteOf(r) \in Sites /\ Known(r)
  BY DEF RowsOK, RowOK
<1>2. /\ k.is_hub \in BOOLEAN /\ k.personal \in BOOLEAN
      /\ k.group \in Groups \cup {NoValue}
      /\ k.channel # 0 =>
           /\ k.group = NoValue /\ k.related \in Groups
           /\ k.channel \in {1, 2} /\ k.is_hub = FALSE
      /\ k.personal => k.group = NoValue /\ k.channel = 0
  BY <1>1, ShapeOfSite DEF RowsOK
<1>3. /\ r.is_hub_site = k.is_hub /\ r.group_id = k.group /\ r.related_group_id = k.related
      /\ r.teams_channel_type = k.channel
      /\ r.is_teams_channel_connected = (k.channel # 0)
      /\ r.is_teams_connected \in BOOLEAN
      /\ r.is_teams_connected = TRUE => k.group \in Groups
  BY <1>1 DEF Known
<1>4. /\ r.is_teams_channel_connected \in BOOLEAN
      /\ r.is_teams_channel_connected = TRUE => k.channel # 0
      /\ k.channel = 0 => r.is_teams_channel_connected = FALSE
  BY <1>3
<1>5. r.group_id = NoValue => r.is_teams_connected = FALSE
  BY <1>3, SharedDataAssumption
<1>6. IsPersonal(r) => r.group_id = NoValue /\ r.is_teams_channel_connected = FALSE
  BY <1>2, <1>3, <1>4 DEF IsPersonal
<1> QED BY <1>2, <1>3, <1>4, <1>5, <1>6 DEF Detailed

(* Of a row without details nothing is known.                              *)
LEMMA UnknownRow ==
  ASSUME RowsOK, NEW r \in sites, r.is_hub_site = NoValue
  PROVE  /\ r.group_id = NoValue /\ r.related_group_id = NoValue
         /\ r.is_teams_channel_connected \notin BOOLEAN
<1>1. Unknown(r)
  BY DEF RowsOK, RowOK
<1> QED BY <1>1, SharedDataAssumption DEF Unknown

-----------------------------------------------------------------------------
(* The invariant.                                                          *)

LEMMA InitSites == Init => SitesInv
<1> SUFFICES ASSUME Init PROVE SitesInv
  OBVIOUS
<1>1. \A s \in Sites : shape[s] \in Shapes(s)
  BY DEF Init
<1>2. exo_groups \in [Groups -> BOOLEAN \cup {Absent}]
  BY DEF Init
<1>3. IsFiniteSet(sites)
  BY FS_EmptySet DEF Init
<1> QED BY <1>1, <1>2, <1>3 DEF Init, SitesInv, RowsOK, DataSetsOfSilver, SitesOfSilver,
                                OrganizationsOfSilver

(* A change of a table gold reads leaves no gold table current.            *)
LEMMA SilverStep ==
  ASSUME current' = {}, RowsOK'
  PROVE  SitesInv'
BY DEF SitesInv, DataSetsOfSilver, SitesOfSilver, OrganizationsOfSilver

Silver == <<shape, sites, exo_groups, teams, group_owners, people>>

(* What a query makes of the same tables is the same.                      *)
LEMMA SameDataSets ==
  ASSUME UNCHANGED Silver
  PROVE  /\ \A first : SharedDataSets(first)' = SharedDataSets(first)
         /\ \A first : IsPrimary(first)' <=> IsPrimary(first)
<1>1. \A first : SharedDataSets(first)' = SharedDataSets(first)
  BY DEF Silver, SharedDataSets, DataSetRows, FamilySize, FamilyKey, DataSet, HubOf, HubId,
         HubRows, IsPersonal, SiteOf, GroupId, TheOne, PrimaryCandidates, ChannelRows, InScope,
         OwnersOf, PrimaryOrg, Votes, GroupsWithoutTeam, Standalone, TeamId, SiteId
<1>2. \A first : IsPrimary(first)' <=> IsPrimary(first)
  BY DEF Silver, IsPrimary, Standalone, IsPersonal, PrimaryCandidates, SiteOf
<1> QED BY <1>1, <1>2

LEMMA SameSites ==
  ASSUME UNCHANGED Silver
  PROVE  DimSites' = DimSites
BY DEF Silver, DimSites, SiteType, DataSetIdOf, IsChannel, HubOf, HubId, HubRows, IsPersonal,
       SiteOf, GroupId, TeamId, SiteId

LEMMA SameOrganizations ==
  ASSUME UNCHANGED Silver, shared_data_sets' = shared_data_sets
  PROVE  Organizations' = Organizations
BY DEF Silver, Organizations, Votes, InScope, OwnersOf

(* A step of the tenant or of bronze touches nothing gold reads.           *)
LEMMA QuietStep ==
  ASSUME SitesInv, RowsOK', UNCHANGED <<Silver, gold, current>>
  PROVE  SitesInv'
<1>1. DataSetsOfSilver'
  BY SameDataSets DEF SitesInv, DataSetsOfSilver, Silver, gold
<1>2. SitesOfSilver' /\ OrganizationsOfSilver'
  BY SameSites, SameOrganizations DEF SitesInv, SitesOfSilver, OrganizationsOfSilver, gold
<1> QED BY <1>1, <1>2 DEF SitesInv

LEMMA SameRows ==
  ASSUME RowsOK, UNCHANGED <<shape, teamed, teams, exo_groups, details, sites>>
  PROVE  RowsOK'
BY DEF RowsOK, RowOK, Known, Unknown, SiteOf

LEMMA TenantStep ==
  ASSUME SitesInv, (\E g \in Groups : MakeTeam(g)) \/ (\E s \in Sites : Rename(s))
  PROVE  SitesInv'
<1>1. /\ UNCHANGED <<shape, details, sites, exo_groups, teams, group_owners, people>>
      /\ UNCHANGED <<gold, current>>
      /\ teamed' \subseteq Groups /\ teamed \subseteq teamed'
  BY DEF MakeTeam, Rename, siteTables, groupTables, SitesInv, RowsOK
<1>2. RowsOK'
  BY <1>1 DEF SitesInv, RowsOK, RowOK, Known, Unknown, SiteOf
<1> QED BY <1>1, <1>2, QuietStep DEF Silver

LEMMA LandDetailsStep ==
  ASSUME SitesInv, NEW s \in Sites, LandDetails(s) PROVE SitesInv'
<1>1. /\ details' = {d \in details : d.address # Address(s)} \cup {DetailsOf(s)}
      /\ UNCHANGED <<shape, teamed, sites, exo_groups, teams, group_owners, people>>
      /\ UNCHANGED <<gold, current>>
  BY DEF LandDetails, tenant, groupTables
<1>2. RowOK(DetailsOf(s))
  BY DetailsAreKnown DEF SitesInv
<1>3. \A r \in details' : RowOK(r)
  BY <1>1, <1>2 DEF SitesInv, RowsOK
<1>4. \A r : RowOK(r)' <=> RowOK(r)
  BY <1>1 DEF RowOK, Known, Unknown, SiteOf
<1>5. RowsOK'
  BY <1>1, <1>3, <1>4 DEF SitesInv, RowsOK
<1> QED BY <1>1, <1>5, QuietStep DEF Silver

LEMMA UpsertSiteStep ==
  ASSUME SitesInv, NEW s \in Sites, UpsertSite(s) PROVE SitesInv'
<1> DEFINE row == StagedSite(s)
           others == {r \in sites : r.address # Address(s)}
<1>1. /\ sites' = others \cup {row} /\ current' = {}
      /\ UNCHANGED <<shape, teamed, details, exo_groups, teams>>
  BY DEF UpsertSite, tenant, groupTables
<1>2. RowOK(row) /\ row.address = Address(s)
  <2> DEFINE known == {d \in details : d.address = Address(s)}
  <2>1. CASE known = {}
    <3>1. row = NoDetails(Address(s))
      BY <2>1 DEF StagedSite
    <3>2. SiteOf(row) = s
      BY <3>1 DEF NoDetails, SiteOf, Address
    <3> QED BY <3>1, <3>2 DEF NoDetails, RowOK, Unknown
  <2>2. CASE known # {}
    <3>1. row \in known
      BY <2>2 DEF StagedSite
    <3> QED BY <3>1 DEF SitesInv, RowsOK
  <2> QED BY <2>1, <2>2
<1> HIDE DEF row
<1>3. \A r \in sites' : RowOK(r)
  BY <1>1, <1>2 DEF SitesInv, RowsOK
<1>4. \A r : RowOK(r)' <=> RowOK(r)
  BY <1>1 DEF RowOK, Known, Unknown, SiteOf
<1>5. \A r, q \in sites' : r.address = q.address => r = q
  BY <1>1, <1>2 DEF SitesInv, RowsOK
<1>6. IsFiniteSet(sites')
  <2>1. IsFiniteSet(others)
    BY FS_Subset DEF SitesInv, RowsOK
  <2> QED BY <1>1, <2>1, FS_AddElement
<1>7. RowsOK'
  BY <1>1, <1>3, <1>4, <1>5, <1>6 DEF SitesInv, RowsOK
<1> QED BY <1>1, <1>7, SilverStep

LEMMA GroupStep ==
  ASSUME SitesInv,
         \/ \E g \in Groups : UpsertGroup(g) \/ UpsertTeam(g)
         \/ \E g \in Groups, u \in Owners : UpsertOwner(g, u)
         \/ \E u \in Owners, o \in Orgs \cup {NoValue, Absent} : ListPeople(u, o)
  PROVE  SitesInv'
<1>1. /\ current' = {} /\ UNCHANGED <<shape, teamed, details, sites>>
      /\ teams' \subseteq teamed
      /\ exo_groups' = exo_groups \/ \E g \in Groups :
           exo_groups' = [exo_groups EXCEPT ![g] = g \in teamed]
  BY DEF UpsertGroup, UpsertTeam, UpsertOwner, ListPeople, tenant, siteTables, SitesInv, RowsOK
<1>2. exo_groups' \in [Groups -> BOOLEAN \cup {Absent}]
  <2>1. exo_groups \in [Groups -> BOOLEAN \cup {Absent}]
    BY DEF SitesInv, RowsOK
  <2>2. ASSUME NEW g \in Groups, NEW v \in BOOLEAN, exo_groups' = [exo_groups EXCEPT ![g] = v]
        PROVE  exo_groups' \in [Groups -> BOOLEAN \cup {Absent}]
    BY <2>1, <2>2
  <2>3. \A g \in Groups : (g \in teamed) \in BOOLEAN
    OBVIOUS
  <2> QED BY <1>1, <2>1, <2>2, <2>3
<1>3. \A r : RowOK(r)' <=> RowOK(r)
  BY <1>1 DEF RowOK, Known, Unknown, SiteOf
<1>4. RowsOK'
  BY <1>1, <1>2, <1>3 DEF SitesInv, RowsOK
<1> QED BY <1>1, <1>4, SilverStep

LEMMA ListStep ==
  ASSUME SitesInv, ListDataSets \/ ListSites \/ ListOrganizations
  PROVE  SitesInv'
<1>1. UNCHANGED <<shape, teamed, teams, exo_groups, details, sites, group_owners, people>>
  BY DEF ListDataSets, ListSites, ListOrganizations, tenant, siteTables, groupTables
<1>2. RowsOK'
  BY <1>1, SameRows DEF SitesInv
<1>3. UNCHANGED Silver
  BY <1>1 DEF Silver
<1>4. CASE ListDataSets
  <2>1. PICK first \in SUBSET sites : IsPrimary(first) /\ shared_data_sets' = SharedDataSets(first)
    BY <1>4 DEF ListDataSets
  <2>2. /\ dim_sites' = dim_sites
        /\ "dim_sites" \in current' => "dim_sites" \in current
        /\ "shared_data_set_organizations" \notin current'
    BY <1>4 DEF ListDataSets
  <2>3. DataSetsOfSilver'
    BY <1>1, <1>3, <2>1, SameDataSets DEF DataSetsOfSilver
  <2>4. SitesOfSilver' /\ OrganizationsOfSilver'
    BY <1>3, <2>2, SameSites DEF SitesInv, SitesOfSilver, OrganizationsOfSilver
  <2> QED BY <1>2, <2>3, <2>4 DEF SitesInv
<1>5. CASE ListSites
  <2>1. /\ dim_sites' = DimSites
        /\ shared_data_sets' = shared_data_sets /\ organizations' = organizations
        /\ current' = current \cup {"dim_sites"}
    BY <1>5 DEF ListSites, Computed
  <2>2. DataSetsOfSilver'
    BY <1>1, <1>3, <2>1, SameDataSets DEF SitesInv, DataSetsOfSilver
  <2>3. SitesOfSilver' /\ OrganizationsOfSilver'
    BY <1>3, <2>1, SameSites, SameOrganizations DEF SitesInv, SitesOfSilver, OrganizationsOfSilver
  <2> QED BY <1>2, <2>2, <2>3 DEF SitesInv
<1>6. CASE ListOrganizations
  <2>1. /\ organizations' = Organizations
        /\ shared_data_sets' = shared_data_sets /\ dim_sites' = dim_sites
        /\ current' = current \cup {"shared_data_set_organizations"}
    BY <1>6 DEF ListOrganizations, Computed
  <2>2. DataSetsOfSilver'
    BY <1>1, <1>3, <2>1, SameDataSets DEF SitesInv, DataSetsOfSilver
  <2>3. SitesOfSilver' /\ OrganizationsOfSilver'
    BY <1>3, <2>1, SameSites, SameOrganizations DEF SitesInv, SitesOfSilver, OrganizationsOfSilver
  <2> QED BY <1>2, <2>2, <2>3 DEF SitesInv
<1> QED BY <1>4, <1>5, <1>6

LEMMA NextKeepsSites == SitesInv /\ [Next]_vars => SitesInv'
<1> SUFFICES ASSUME SitesInv, [Next]_vars PROVE SitesInv'
  OBVIOUS
<1>1. CASE UNCHANGED vars
  <2>1. UNCHANGED <<Silver, gold, current>>
    BY <1>1 DEF vars, Silver, tenant, siteTables, groupTables
  <2>2. RowsOK'
    BY <1>1, SameRows DEF SitesInv, vars, tenant, siteTables, groupTables
  <2> QED BY <2>1, <2>2, QuietStep
<1> QED BY <1>1, TenantStep, LandDetailsStep, UpsertSiteStep, GroupStep, ListStep DEF Next

LEMMA SitesInvHolds == Spec => []SitesInv
BY InitSites, NextKeepsSites, PTL DEF Spec

-----------------------------------------------------------------------------
(* The rows of shared_data_sets.                                           *)

TeamRow(first, g) ==
  DataSet(TeamId(g), NoValue, TheOne(first \cap PrimaryCandidates(g)),
          Cardinality(ChannelRows(g)), Cardinality(InScope(g)), PrimaryOrg(g))
GroupRow(first, g) ==
  DataSet(<<"m365_group", g>>, NoValue, TheOne(first \cap PrimaryCandidates(g)),
          NoValue, Cardinality(InScope(g)), PrimaryOrg(g))
Firsts(first, s) == {f \in first : Standalone(f) /\ SiteOf(f) = s}
SiteRow(first, r) ==
  DataSet(SiteId(SiteOf(r)), r.address, TheOne(Firsts(first, SiteOf(r))), NoValue, 0, NoValue)

StandaloneRows == {x \in sites : Standalone(x)}

LEMMA RowsAre ==
  ASSUME NEW first
  PROVE  DataSetRows(first) = {TeamRow(first, g) : g \in teams}
           \cup {GroupRow(first, g) : g \in GroupsWithoutTeam}
           \cup {SiteRow(first, r) : r \in StandaloneRows}
BY DEF DataSetRows, TeamRow, GroupRow, SiteRow, Firsts, StandaloneRows

(* A row says of its primary site what that says of itself.                *)
AboutSite(row, rows) ==
  \/ row.primary_site = NoValue /\ row.hub = NoValue /\ row.is_hub = FALSE
  \/ \E f \in rows : /\ row.primary_site = f.address /\ row.hub = HubOf(f)
                     /\ row.is_hub = (f.is_hub_site = TRUE)

LEMMA RowIsAboutSite ==
  ASSUME NEW rows, NEW id, NEW from, NEW channels, NEW owners, NEW org
  PROVE  AboutSite(DataSet(id, from, TheOne(rows), channels, owners, org), rows)
<1> DEFINE site == TheOne(rows)
           row == DataSet(id, from, site, channels, owners, org)
<1>1. /\ row.primary_site = IF site = NoValue THEN NoValue ELSE site.address
      /\ row.is_hub = (site # NoValue /\ site.is_hub_site = TRUE)
      /\ row.hub = IF site = NoValue THEN NoValue ELSE HubOf(site)
  BY DEF DataSet
<1>2. site # NoValue => site \in rows
  BY DEF TheOne
<1> HIDE DEF site, row
<1>3. AboutSite(row, rows)
  <2>1. CASE site = NoValue
    <3>1. row.is_hub = FALSE
      BY <1>1, <2>1
    <3> QED BY <1>1, <2>1, <3>1 DEF AboutSite
  <2>2. CASE site # NoValue
    <3>1. row.is_hub = (site.is_hub_site = TRUE)
      BY <1>1, <2>2
    <3> QED BY <1>1, <1>2, <2>2, <3>1 DEF AboutSite
  <2> QED BY <2>1, <2>2
<1> QED BY <1>3 DEF row, site

LEMMA TeamFields ==
  ASSUME NEW first, NEW g
  PROVE  LET row == TeamRow(first, g) IN
         /\ row.id = TeamId(g) /\ row.from = NoValue
         /\ row.channels = Cardinality(ChannelRows(g))
         /\ row.owners_in_scope = Cardinality(InScope(g)) /\ row.organization = PrimaryOrg(g)
         /\ AboutSite(row, first \cap PrimaryCandidates(g))
<1>1. AboutSite(TeamRow(first, g), first \cap PrimaryCandidates(g))
  BY RowIsAboutSite, Zenon DEF TeamRow
<1> QED BY <1>1 DEF TeamRow, DataSet

LEMMA GroupFields ==
  ASSUME NEW first, NEW g
  PROVE  LET row == GroupRow(first, g) IN
         /\ row.id = <<"m365_group", g>> /\ row.from = NoValue /\ row.channels = NoValue
         /\ row.owners_in_scope = Cardinality(InScope(g)) /\ row.organization = PrimaryOrg(g)
         /\ AboutSite(row, first \cap PrimaryCandidates(g))
<1>1. AboutSite(GroupRow(first, g), first \cap PrimaryCandidates(g))
  BY RowIsAboutSite, Zenon DEF GroupRow
<1> QED BY <1>1 DEF GroupRow, DataSet

LEMMA SiteFields ==
  ASSUME NEW first, NEW r
  PROVE  LET row == SiteRow(first, r) IN
         /\ row.id = SiteId(SiteOf(r)) /\ row.from = r.address /\ row.channels = NoValue
         /\ AboutSite(row, Firsts(first, SiteOf(r)))
<1>1. AboutSite(SiteRow(first, r), Firsts(first, SiteOf(r)))
  BY RowIsAboutSite, Zenon DEF SiteRow
<1> QED BY <1>1 DEF SiteRow, DataSet

(* Of a current table: its rows, with the sizes of their families.         *)
LEMMA ListedRows ==
  ASSUME SitesInv, "shared_data_sets" \in current
  PROVE  \E first \in SUBSET sites :
           /\ IsPrimary(first) /\ shared_data_sets = SharedDataSets(first)
           /\ \A r \in shared_data_sets : /\ r.data_set \in DataSetRows(first)
                                          /\ r.hub_family_size = FamilySize(r.data_set, DataSetRows(first))
           /\ \A r, q \in shared_data_sets : r.data_set = q.data_set => r = q
           /\ \A d \in DataSetRows(first) : \E r \in shared_data_sets : r.data_set = d
<1>1. PICK first \in SUBSET sites : IsPrimary(first) /\ shared_data_sets = SharedDataSets(first)
  BY DEF SitesInv, DataSetsOfSilver
<1> DEFINE all == DataSetRows(first)
           sized(d) == [data_set |-> d, hub_family_size |-> FamilySize(d, all)]
<1>2. shared_data_sets = {sized(d) : d \in all}
  BY <1>1 DEF SharedDataSets
<1>3. \A d : sized(d).data_set = d /\ sized(d).hub_family_size = FamilySize(d, all)
  OBVIOUS
<1> HIDE DEF sized, all
<1>4. /\ \A r \in shared_data_sets : /\ r.data_set \in all
                                     /\ r.hub_family_size = FamilySize(r.data_set, all)
      /\ \A r, q \in shared_data_sets : r.data_set = q.data_set => r = q
      /\ \A d \in all : \E r \in shared_data_sets : r.data_set = d
  BY <1>2, <1>3
<1> QED BY <1>1, <1>4 DEF all

LEMMA RowKinds ==
  ASSUME NEW first, NEW d \in DataSetRows(first)
  PROVE  \/ \E g \in teams : d = TeamRow(first, g)
         \/ \E g \in GroupsWithoutTeam : d = GroupRow(first, g)
         \/ \E r \in StandaloneRows : d = SiteRow(first, r)
BY RowsAre

(* A row is about one of the rows it could be about.                       *)
LEMMA RowAboutSite ==
  ASSUME NEW first, NEW d \in DataSetRows(first)
  PROVE  \E rows : AboutSite(d, rows)
<1>1. CASE \E g \in teams : d = TeamRow(first, g)
  <2>1. PICK g : d = TeamRow(first, g)
    BY <1>1
  <2>2. AboutSite(d, first \cap PrimaryCandidates(g))
    BY <2>1, TeamFields, Zenon
  <2> QED BY <2>2
<1>2. CASE \E g \in GroupsWithoutTeam : d = GroupRow(first, g)
  <2>1. PICK g : d = GroupRow(first, g)
    BY <1>2
  <2>2. AboutSite(d, first \cap PrimaryCandidates(g))
    BY <2>1, GroupFields, Zenon
  <2> QED BY <2>2
<1>3. CASE \E r \in StandaloneRows : d = SiteRow(first, r)
  <2>1. PICK r : d = SiteRow(first, r)
    BY <1>3
  <2>2. AboutSite(d, Firsts(first, SiteOf(r)))
    BY <2>1, SiteFields, Zenon
  <2> QED BY <2>2
<1> QED BY <1>1, <1>2, <1>3, RowKinds

(* Ids of teams, groups and sites differ.                                  *)
LEMMA IdsDiffer ==
  /\ \A g, h : TeamId(g) # <<"m365_group", h>>
  /\ \A g, s : TeamId(g) # SiteId(s) /\ <<"m365_group", g>> # SiteId(s)
  /\ \A g, h : TeamId(g) = TeamId(h) => g = h
  /\ \A g, h : <<"m365_group", g>> = <<"m365_group", h>> => g = h
  /\ \A s, z : SiteId(s) = SiteId(z) => s = z
  /\ \A g : TeamId(g)[1] = "team" /\ \A s : SiteId(s)[1] = "site"
BY DEF TeamId, SiteId

LEMMA RowIds ==
  ASSUME NEW first
  PROVE  /\ \A g : TeamRow(first, g).id = TeamId(g)
         /\ \A g : GroupRow(first, g).id = <<"m365_group", g>>
         /\ \A r : SiteRow(first, r).id = SiteId(SiteOf(r))
BY TeamFields, GroupFields, SiteFields

(* Two rows of one id are of two addresses of a site.                      *)
LEMMA OneRow ==
  ASSUME RowsOK, NEW first, NEW d \in DataSetRows(first), NEW e \in DataSetRows(first),
         d.id = e.id
  PROVE  \/ d = e
         \/ \E r, q \in StandaloneRows :
              /\ d = SiteRow(first, r) /\ e = SiteRow(first, q) /\ SiteOf(r) = SiteOf(q)
              /\ d.from # e.from
<1>1. CASE \E g \in teams : d = TeamRow(first, g)
  <2>1. PICK g \in teams : d = TeamRow(first, g)
    BY <1>1
  <2>2. e.id = TeamId(g)
    BY <2>1, RowIds
  <2>3. \E h \in teams : e = TeamRow(first, h)
    BY <2>2, RowIds, RowKinds, IdsDiffer
  <2> QED BY <2>1, <2>2, <2>3, RowIds, IdsDiffer
<1>2. CASE \E g \in GroupsWithoutTeam : d = GroupRow(first, g)
  <2>1. PICK g \in GroupsWithoutTeam : d = GroupRow(first, g)
    BY <1>2
  <2>2. e.id = <<"m365_group", g>>
    BY <2>1, RowIds
  <2>3. \E h \in GroupsWithoutTeam : e = GroupRow(first, h)
    BY <2>2, RowIds, RowKinds, IdsDiffer
  <2> QED BY <2>1, <2>2, <2>3, RowIds, IdsDiffer
<1>3. CASE \E r \in StandaloneRows : d = SiteRow(first, r)
  <2>1. PICK r \in StandaloneRows : d = SiteRow(first, r)
    BY <1>3
  <2>2. d.id = SiteId(SiteOf(r)) /\ d.from = r.address
    BY <2>1, SiteFields
  <2>3. PICK q \in StandaloneRows : e = SiteRow(first, q)
    <3>1. e.id = SiteId(SiteOf(r))
      BY <2>2
    <3>2. \A g : e # TeamRow(first, g) /\ e # GroupRow(first, g)
      <4> TAKE g
      <4>1. TeamRow(first, g).id = TeamId(g) /\ GroupRow(first, g).id = <<"m365_group", g>>
        BY RowIds
      <4>2. TeamId(g) # SiteId(SiteOf(r)) /\ <<"m365_group", g>> # SiteId(SiteOf(r))
        BY IdsDiffer
      <4> QED BY <3>1, <4>1, <4>2
    <3> QED BY <3>2, RowKinds
  <2>4. e.id = SiteId(SiteOf(q)) /\ e.from = q.address
    BY <2>3, SiteFields
  <2>5. SiteOf(r) = SiteOf(q)
    BY <2>2, <2>4, IdsDiffer
  <2>6. CASE d.from = e.from
    <3>1. r \in sites /\ q \in sites /\ r.address = q.address
      BY <2>2, <2>4, <2>6 DEF StandaloneRows
    <3>2. r = q
      BY <3>1 DEF RowsOK
    <3> QED BY <2>1, <2>3, <3>2
  <2>7. CASE d.from # e.from
    BY <2>1, <2>3, <2>5, <2>7
  <2> QED BY <2>6, <2>7
<1> QED BY <1>1, <1>2, <1>3, RowKinds

(* The ids of a current table.                                             *)
LEMMA IdsAre ==
  ASSUME SitesInv, "shared_data_sets" \in current
  PROVE  /\ \A g : TeamId(g) \in Ids <=> g \in teams
         /\ \A g : <<"m365_group", g>> \in Ids <=> g \in GroupsWithoutTeam
         /\ \A r \in StandaloneRows : SiteId(SiteOf(r)) \in Ids
<1>1. PICK first \in SUBSET sites :
        /\ \A r \in shared_data_sets : r.data_set \in DataSetRows(first)
        /\ \A d \in DataSetRows(first) : \E r \in shared_data_sets : r.data_set = d
  BY ListedRows
<1>2. Ids = {d.id : d \in DataSetRows(first)}
  BY <1>1 DEF Ids
<1>3. /\ \A g \in teams : TeamRow(first, g) \in DataSetRows(first)
      /\ \A g \in GroupsWithoutTeam : GroupRow(first, g) \in DataSetRows(first)
      /\ \A r \in StandaloneRows : SiteRow(first, r) \in DataSetRows(first)
  BY RowsAre
<1>4. /\ \A g \in teams : TeamId(g) \in Ids
      /\ \A g \in GroupsWithoutTeam : <<"m365_group", g>> \in Ids
      /\ \A r \in StandaloneRows : SiteId(SiteOf(r)) \in Ids
  BY <1>2, <1>3, RowIds
<1>5. ASSUME NEW d \in DataSetRows(first)
      PROVE  \/ \E h \in teams : d.id = TeamId(h)
             \/ \E h \in GroupsWithoutTeam : d.id = <<"m365_group", h>>
             \/ \E s : d.id = SiteId(s)
  <2>1. CASE \E h \in teams : d = TeamRow(first, h)
    BY <2>1, RowIds
  <2>2. CASE \E h \in GroupsWithoutTeam : d = GroupRow(first, h)
    BY <2>2, RowIds
  <2>3. CASE \E r \in StandaloneRows : d = SiteRow(first, r)
    BY <2>3, RowIds
  <2> QED BY <2>1, <2>2, <2>3, RowKinds
<1>6. ASSUME NEW g, TeamId(g) \in Ids PROVE g \in teams
  BY <1>2, <1>5, <1>6, IdsDiffer
<1>7. ASSUME NEW g, <<"m365_group", g>> \in Ids PROVE g \in GroupsWithoutTeam
  BY <1>2, <1>5, <1>7, IdsDiffer
<1> QED BY <1>4, <1>6, <1>7

-----------------------------------------------------------------------------
(* One row for each.                                                       *)

LEMMA InvOneRow == SitesInv => OneRowPerDataSet
<1> SUFFICES ASSUME SitesInv, "shared_data_sets" \in current PROVE
      /\ Settled => \A g \in Groups : TeamId(g) \notin Ids \/ <<"m365_group", g>> \notin Ids
      /\ \A r, q \in shared_data_sets :
           r.data_set.id = q.data_set.id => r = q \/ r.data_set.from # q.data_set.from
  BY DEF OneRowPerDataSet
<1>1. ASSUME Settled, NEW g \in Groups, TeamId(g) \in Ids, <<"m365_group", g>> \in Ids
      PROVE  FALSE
  <2>1. g \in teams /\ exo_groups[g] = FALSE
    BY <1>1, IdsAre DEF GroupsWithoutTeam
  <2> QED BY <1>1, <2>1 DEF Settled
<1>2. ASSUME NEW r \in shared_data_sets, NEW q \in shared_data_sets,
             r.data_set.id = q.data_set.id, r.data_set.from = q.data_set.from
      PROVE  r = q
  <2>1. PICK first \in SUBSET sites :
          /\ \A x \in shared_data_sets : x.data_set \in DataSetRows(first)
          /\ \A x, y \in shared_data_sets : x.data_set = y.data_set => x = y
    BY ListedRows
  <2>2. r.data_set = q.data_set
    BY <1>2, <2>1, OneRow DEF SitesInv
  <2> QED BY <2>1, <2>2
<1> QED BY <1>1, <1>2

(* Once silver is settled a group is listed with its team or without, and  *)
(* no id comes twice but for the former addresses of a site, in any tenant. *)
THEOREM OneRowPerDataSetHolds == Spec => []OneRowPerDataSet
BY InvOneRow, SitesInvHolds, PTL

-----------------------------------------------------------------------------
(* References.                                                             *)

(* The id of the hub that a row of spo_sites stands for.                   *)
HubIdOf(r) == IF r.group_id = NoValue THEN SiteId(SiteOf(r)) ELSE GroupId(r.group_id)
IsHubId(id) ==
  id = NoValue \/ \E r \in sites : r.is_hub_site = TRUE /\ ~IsPersonal(r) /\ id = HubIdOf(r)

LEMMA HubOfIsHubId == ASSUME NEW row PROVE IsHubId(HubOf(row))
<1>1. CASE row.is_hub_site = TRUE \/ HubRows(row.hub_site_id) = {}
  BY <1>1 DEF HubOf, HubId, IsHubId
<1>2. CASE row.is_hub_site # TRUE /\ HubRows(row.hub_site_id) # {}
  <2> DEFINE h == row.hub_site_id
             c == CHOOSE r \in HubRows(h) : TRUE
  <2>1. c \in HubRows(h)
    BY <1>2
  <2>2. c \in sites /\ SiteOf(c) = h /\ c.is_hub_site = TRUE /\ ~IsPersonal(c)
    BY <2>1 DEF HubRows
  <2>3. HubOf(row) = IF c.group_id = NoValue THEN SiteId(h) ELSE GroupId(c.group_id)
    BY <1>2 DEF HubOf, HubId
  <2>4. HubOf(row) = HubIdOf(c)
    BY <2>2, <2>3 DEF HubIdOf
  <2> QED BY <2>2, <2>4 DEF IsHubId
<1> QED BY <1>1, <1>2

LEMMA GroupIdListed ==
  ASSUME SitesInv, "shared_data_sets" \in current, Settled,
         NEW g \in Groups, exo_groups[g] # Absent
  PROVE  GroupId(g) \in Ids
<1>1. exo_groups[g] \in BOOLEAN
  BY DEF SitesInv, RowsOK
<1>2. CASE exo_groups[g] = TRUE
  <2>1. g \in teams /\ GroupId(g) = TeamId(g)
    BY <1>2 DEF GroupId, Settled
  <2> QED BY <2>1, IdsAre
<1>3. CASE exo_groups[g] = FALSE
  <2>1. g \in GroupsWithoutTeam /\ GroupId(g) = <<"m365_group", g>>
    BY <1>3 DEF GroupId, GroupsWithoutTeam
  <2> QED BY <2>1, IdsAre
<1> QED BY <1>1, <1>2, <1>3

(* What a site that is not personal belongs to: the team of its channel,   *)
(* its group, or itself.                                                   *)
LEMMA SiteKinds ==
  ASSUME SitesInv, NEW r \in sites, ~IsPersonal(r), Detailed(r)
  PROVE  \/ /\ r.is_teams_channel_connected = TRUE /\ IsChannel(SiteType(r))
            /\ r.is_hub_site = FALSE /\ r.related_group_id \in Groups
            /\ DataSetIdOf(r) = TeamId(r.related_group_id)
         \/ /\ r.is_teams_channel_connected = FALSE /\ ~IsChannel(SiteType(r))
            /\ DataSetIdOf(r) = HubIdOf(r)
            /\ r.group_id \in Groups \/ (r.group_id = NoValue /\ r \in StandaloneRows)
<1>1. CASE r.is_teams_channel_connected = TRUE
  <2>1. /\ r.is_hub_site = FALSE /\ r.related_group_id \in Groups /\ r.related_group_id # NoValue
        /\ r.teams_channel_type \in {1, 2}
    BY <1>1, SharedDataAssumption DEF Detailed
  <2>2. IsChannel(SiteType(r))
    BY <1>1, <2>1 DEF SiteType, IsChannel
  <2>3. DataSetIdOf(r) = TeamId(r.related_group_id)
    BY <2>2 DEF DataSetIdOf
  <2> QED BY <1>1, <2>1, <2>2, <2>3
<1>2. CASE r.is_teams_channel_connected = FALSE
  <2>1. SiteType(r) = IF r.is_hub_site = TRUE THEN "hub"
                      ELSE IF r.group_id # NoValue THEN "primary" ELSE "standalone"
    BY <1>2 DEF SiteType
  <2>2. DataSetIdOf(r) = HubIdOf(r) /\ ~IsChannel(SiteType(r))
    BY <2>1 DEF DataSetIdOf, IsChannel, HubIdOf
  <2>3. r.group_id = NoValue => r \in StandaloneRows
    BY <1>2 DEF Detailed, Standalone, StandaloneRows
  <2>4. r.group_id \in Groups \/ r.group_id = NoValue
    BY DEF Detailed
  <2> QED BY <1>2, <2>2, <2>3, <2>4
<1> QED BY <1>1, <1>2 DEF Detailed

(* Every site that is not personal has its row, as has every hub.          *)
LEMMA SiteListed ==
  ASSUME SitesInv, "shared_data_sets" \in current, Settled,
         NEW r \in sites, ~IsPersonal(r)
  PROVE  /\ DataSetIdOf(r) \in Ids
         /\ r.is_hub_site = TRUE => HubIdOf(r) \in Ids
<1>1. Detailed(r)
  BY KnownIsDetailed DEF Settled, SitesInv
<1>2. CASE r.is_teams_channel_connected = TRUE
  <2>1. /\ DataSetIdOf(r) = TeamId(r.related_group_id) /\ r.is_hub_site = FALSE
    BY <1>1, <1>2, SiteKinds
  <2>2. r.related_group_id \in teams
    BY <1>2 DEF Settled
  <2> QED BY <2>1, <2>2, IdsAre
<1>3. CASE r.is_teams_channel_connected # TRUE
  <2>1. /\ DataSetIdOf(r) = HubIdOf(r)
        /\ r.group_id \in Groups \/ (r.group_id = NoValue /\ r \in StandaloneRows)
    BY <1>1, <1>3, SiteKinds
  <2>2. CASE r.group_id \in Groups
    <3>1. exo_groups[r.group_id] # Absent /\ r.group_id # NoValue
      BY <2>2, SharedDataAssumption DEF Settled
    <3>2. HubIdOf(r) \in Ids
      BY <2>2, <3>1, GroupIdListed DEF HubIdOf
    <3> QED BY <2>1, <3>2
  <2>3. CASE r.group_id = NoValue /\ r \in StandaloneRows
    <3>1. HubIdOf(r) \in Ids
      BY <2>3, IdsAre DEF HubIdOf
    <3> QED BY <2>1, <3>1
  <2> QED BY <2>1, <2>2, <2>3
<1> QED BY <1>2, <1>3

LEMMA InvReferences == SitesInv => SettledReferences
<1> SUFFICES ASSUME SitesInv, "shared_data_sets" \in current, "dim_sites" \in current, Settled
             PROVE  /\ \A d \in dim_sites : d.data_set \in Ids /\ d.hub \in Ids \cup {NoValue}
                    /\ \A r \in shared_data_sets : r.data_set.hub \in Ids \cup {NoValue}
  BY DEF SettledReferences
<1>1. ASSUME NEW id, IsHubId(id) PROVE id \in Ids \cup {NoValue}
  BY <1>1, SiteListed DEF IsHubId
<1>2. dim_sites = DimSites
  BY DEF SitesInv, SitesOfSilver
<1>3. ASSUME NEW d \in dim_sites
      PROVE  d.data_set \in Ids /\ d.hub \in Ids \cup {NoValue}
  <2>1. PICK r \in sites : ~IsPersonal(r) /\ d.data_set = DataSetIdOf(r) /\ d.hub = HubOf(r)
    BY <1>2 DEF DimSites
  <2> QED BY <1>1, <2>1, SiteListed, HubOfIsHubId
<1>4. ASSUME NEW r \in shared_data_sets
      PROVE  r.data_set.hub \in Ids \cup {NoValue}
  <2>1. PICK first \in SUBSET sites : r.data_set \in DataSetRows(first)
    BY ListedRows
  <2>2. \E rows : AboutSite(r.data_set, rows)
    BY <2>1, RowAboutSite
  <2>3. IsHubId(r.data_set.hub)
    BY <2>2, HubOfIsHubId DEF AboutSite, IsHubId
  <2> QED BY <1>1, <2>3
<1> QED BY <1>3, <1>4

(* Once silver is settled no site and no hub refers to a row that          *)
(* shared_data_sets does not have, in any tenant.                          *)
THEOREM SettledReferencesHolds == Spec => []SettledReferences
BY InvReferences, SitesInvHolds, PTL

(* The primary site of a row is a site of that row, and no channel.        *)
LEMMA PrimarySiteIsOfRow ==
  ASSUME SitesInv, Settled, NEW first \in SUBSET sites, NEW d \in DataSetRows(first),
         d.primary_site # NoValue
  PROVE  \E f \in sites : /\ ~IsPersonal(f) /\ f.address = d.primary_site
                          /\ d.hub = HubOf(f) /\ DataSetIdOf(f) = d.id
                          /\ ~IsChannel(SiteType(f))
<1>1. ASSUME NEW f \in sites, NEW g \in Groups, f.group_id = g
      PROVE  /\ ~IsPersonal(f) /\ ~IsChannel(SiteType(f)) /\ DataSetIdOf(f) = GroupId(g)
  <2>1. Detailed(f) /\ f.group_id # NoValue
    BY <1>1, KnownIsDetailed, SharedDataAssumption DEF Settled, SitesInv
  <2>2. ~IsPersonal(f) /\ f.is_teams_channel_connected = FALSE
    BY <2>1 DEF Detailed
  <2>3. DataSetIdOf(f) = HubIdOf(f) /\ ~IsChannel(SiteType(f))
    BY <2>1, <2>2, SiteKinds
  <2> QED BY <1>1, <2>1, <2>2, <2>3 DEF HubIdOf
<1>2. CASE \E g \in teams : d = TeamRow(first, g)
  <2>1. PICK g \in teams : d = TeamRow(first, g)
    BY <1>2
  <2>2. d.id = TeamId(g) /\ AboutSite(d, first \cap PrimaryCandidates(g))
    BY <2>1, TeamFields, Zenon
  <2>3. PICK f \in first \cap PrimaryCandidates(g) : d.primary_site = f.address /\ d.hub = HubOf(f)
    BY <2>2 DEF AboutSite
  <2>4. g \in Groups /\ f \in sites /\ f.group_id = g
    BY <2>3 DEF PrimaryCandidates, SitesInv, RowsOK
  <2>5. GroupId(g) = TeamId(g)
    BY <2>4 DEF Settled, GroupId
  <2> QED BY <1>1, <2>2, <2>3, <2>4, <2>5
<1>3. CASE \E g \in GroupsWithoutTeam : d = GroupRow(first, g)
  <2>1. PICK g \in GroupsWithoutTeam : d = GroupRow(first, g)
    BY <1>3
  <2>2. d.id = <<"m365_group", g>> /\ AboutSite(d, first \cap PrimaryCandidates(g))
    BY <2>1, GroupFields, Zenon
  <2>3. PICK f \in first \cap PrimaryCandidates(g) : d.primary_site = f.address /\ d.hub = HubOf(f)
    BY <2>2 DEF AboutSite
  <2>4. g \in Groups /\ f \in sites /\ f.group_id = g
    BY <2>3 DEF PrimaryCandidates, GroupsWithoutTeam
  <2>5. GroupId(g) = <<"m365_group", g>>
    BY DEF GroupId, GroupsWithoutTeam
  <2> QED BY <1>1, <2>2, <2>3, <2>4, <2>5
<1>4. CASE \E r \in StandaloneRows : d = SiteRow(first, r)
  <2>1. PICK r \in StandaloneRows : d = SiteRow(first, r)
    BY <1>4
  <2>2. d.id = SiteId(SiteOf(r)) /\ AboutSite(d, Firsts(first, SiteOf(r)))
    BY <2>1, SiteFields, Zenon
  <2>3. PICK f \in Firsts(first, SiteOf(r)) : d.primary_site = f.address /\ d.hub = HubOf(f)
    BY <2>2 DEF AboutSite
  <2>4. f \in sites /\ Standalone(f) /\ SiteOf(f) = SiteOf(r)
    BY <2>3 DEF Firsts
  <2>5. Detailed(f)
    BY <2>4, KnownIsDetailed DEF Settled, SitesInv
  <2>6. ~IsPersonal(f) /\ f.is_teams_channel_connected = FALSE /\ f.group_id = NoValue
    BY <2>4 DEF Standalone
  <2>7. DataSetIdOf(f) = HubIdOf(f) /\ ~IsChannel(SiteType(f))
    BY <2>4, <2>5, <2>6, SiteKinds
  <2> QED BY <2>2, <2>3, <2>4, <2>6, <2>7 DEF HubIdOf
<1> QED BY <1>2, <1>3, <1>4, RowKinds

DimRow(r) ==
  [address |-> r.address, site_type |-> SiteType(r), data_set |-> DataSetIdOf(r),
   hub |-> HubOf(r)]

LEMMA InvRefersBack == SitesInv => PrimarySiteRefersBack
<1> SUFFICES ASSUME SitesInv, "shared_data_sets" \in current, "dim_sites" \in current, Settled,
                    NEW r \in shared_data_sets, r.data_set.primary_site # NoValue
             PROVE  \E d \in dim_sites : /\ d.address = r.data_set.primary_site
                                         /\ d.data_set = r.data_set.id
                                         /\ ~IsChannel(d.site_type)
                                         /\ d.hub = r.data_set.hub
  BY DEF PrimarySiteRefersBack
<1>1. PICK first \in SUBSET sites : r.data_set \in DataSetRows(first)
  BY ListedRows
<1>2. PICK f \in sites : /\ ~IsPersonal(f) /\ f.address = r.data_set.primary_site
                         /\ r.data_set.hub = HubOf(f) /\ DataSetIdOf(f) = r.data_set.id
                         /\ ~IsChannel(SiteType(f))
  BY <1>1, PrimarySiteIsOfRow
<1>3. DimRow(f) \in dim_sites
  BY <1>2 DEF DimRow, DimSites, SitesInv, SitesOfSilver
<1> QED BY <1>2, <1>3 DEF DimRow

(* The primary site of a row refers back to it, and both tables have the   *)
(* same hub for it, in any tenant once silver is settled.                  *)
THEOREM PrimarySiteRefersBackHolds == Spec => []PrimarySiteRefersBack
BY InvRefersBack, SitesInvHolds, PTL

-----------------------------------------------------------------------------
(* Counts.                                                                 *)

LEMMA ChannelTypeIsConnected ==
  ASSUME NEW r, IsChannel(SiteType(r))
  PROVE  r.is_teams_channel_connected = TRUE /\ DataSetIdOf(r) = TeamId(r.related_group_id)
BY DEF IsChannel, SiteType, DataSetIdOf

(* The rows of dim_sites that are channels of a team are those of silver.  *)
LEMMA ChannelsOfTeam ==
  ASSUME SitesInv, NEW g \in Groups
  PROVE  Cardinality(ChannelRows(g)) =
           Cardinality({d \in DimSites : d.data_set = TeamId(g) /\ IsChannel(d.site_type)})
<1> DEFINE S == ChannelRows(g)
           T == {d \in DimSites : d.data_set = TeamId(g) /\ IsChannel(d.site_type)}
           f == [r \in S |-> DimRow(r)]
<1>1. DimSites = {DimRow(r) : r \in {x \in sites : ~IsPersonal(x)}}
  BY DEF DimSites, DimRow
<1>2. ASSUME NEW r \in S PROVE DimRow(r) \in T
  <2>1. r \in sites /\ r.is_teams_channel_connected = TRUE /\ r.related_group_id = g
    BY DEF ChannelRows
  <2>2. Detailed(r)
    BY <2>1, KnownIsDetailed, UnknownRow DEF SitesInv
  <2>3. ~IsPersonal(r)
    BY <2>1, <2>2 DEF Detailed
  <2>4. IsChannel(SiteType(r)) /\ DataSetIdOf(r) = TeamId(g)
    BY <2>1, <2>2, <2>3, SiteKinds
  <2>5. DimRow(r).data_set = TeamId(g) /\ IsChannel(DimRow(r).site_type)
    BY <2>4 DEF DimRow
  <2>6. DimRow(r) \in DimSites
    BY <1>1, <2>1, <2>3
  <2> QED BY <2>5, <2>6
<1>3. ASSUME NEW d \in T PROVE \E r \in S : DimRow(r) = d
  <2>1. PICK r \in sites : ~IsPersonal(r) /\ d = DimRow(r)
    BY <1>1
  <2>2. IsChannel(SiteType(r)) /\ DataSetIdOf(r) = TeamId(g)
    BY <2>1 DEF DimRow
  <2>3. r.is_teams_channel_connected = TRUE /\ TeamId(r.related_group_id) = TeamId(g)
    BY <2>2, ChannelTypeIsConnected
  <2>4. r \in S
    BY <2>1, <2>3, IdsDiffer DEF ChannelRows
  <2> QED BY <2>1, <2>4
<1>4. ASSUME NEW r \in S, NEW q \in S, DimRow(r) = DimRow(q) PROVE r = q
  BY <1>4 DEF DimRow, ChannelRows, SitesInv, RowsOK
<1>5. IsFiniteSet(S)
  BY FS_Subset DEF ChannelRows, SitesInv, RowsOK
<1> HIDE DEF S, T
<1>6. f \in Bijection(S, T)
  BY <1>2, <1>3, <1>4 DEF Bijection, Injection, Surjection, IsInjective
<1>7. ExistsBijection(S, T)
  BY <1>6, Zenon DEF ExistsBijection
<1>8. Cardinality(S) = Cardinality(T)
  BY <1>5, <1>7, FS_Bijection
<1> QED BY <1>8 DEF S, T

LEMMA InvChannels == SitesInv => ChannelSitesCounted
<1> SUFFICES ASSUME SitesInv, "shared_data_sets" \in current, "dim_sites" \in current,
                    NEW r \in shared_data_sets, r.data_set.channels # NoValue
             PROVE  r.data_set.channels =
                      Cardinality({d \in dim_sites : /\ d.data_set = r.data_set.id
                                                     /\ IsChannel(d.site_type)})
  BY DEF ChannelSitesCounted
<1>1. PICK first \in SUBSET sites : r.data_set \in DataSetRows(first)
  BY ListedRows
<1>2. PICK g \in teams : r.data_set = TeamRow(first, g)
  <2>1. \A g : GroupRow(first, g).channels = NoValue /\ SiteRow(first, g).channels = NoValue
    BY GroupFields, SiteFields
  <2> QED BY <1>1, <2>1, RowKinds
<1>3. r.data_set.channels = Cardinality(ChannelRows(g)) /\ r.data_set.id = TeamId(g)
  BY <1>2, TeamFields
<1>4. g \in Groups /\ dim_sites = DimSites
  BY DEF SitesInv, RowsOK, SitesOfSilver
<1> QED BY <1>3, <1>4, ChannelsOfTeam

(* The rows that agree on the hub they are of: the hub has no hub itself.  *)
LEMMA RowIsHub ==
  ASSUME NEW first, NEW d \in DataSetRows(first)
  PROVE  d.is_hub \in BOOLEAN /\ (d.is_hub = TRUE => d.hub = NoValue)
<1>1. PICK rows : AboutSite(d, rows)
  BY RowAboutSite
<1>2. \A f : f.is_hub_site = TRUE => HubOf(f) = NoValue
  BY DEF HubOf
<1>3. \A f : (f.is_hub_site = TRUE) \in BOOLEAN
  OBVIOUS
<1>4. CASE d.hub = NoValue /\ d.is_hub = FALSE
  BY <1>4
<1>5. CASE \E f \in rows : d.hub = HubOf(f) /\ d.is_hub = (f.is_hub_site = TRUE)
  <2>1. PICK f \in rows : d.hub = HubOf(f) /\ d.is_hub = (f.is_hub_site = TRUE)
    BY <1>5
  <2>2. CASE f.is_hub_site = TRUE
    BY <1>2, <2>1, <2>2
  <2>3. CASE f.is_hub_site # TRUE
    <3>1. d.is_hub = FALSE
      BY <2>1, <2>3
    <3> QED BY <3>1
  <2> QED BY <2>2, <2>3
<1> QED BY <1>1, <1>4, <1>5 DEF AboutSite

LEMMA IdIsValue ==
  ASSUME RowsOK, NEW first, NEW d \in DataSetRows(first)
  PROVE  d.id # NoValue
<1> DEFINE Id == {"site", "team", "m365_group"} \X (Sites \cup Groups)
<1>1. CASE \E g \in teams : d = TeamRow(first, g)
  <2>1. PICK g \in teams : d = TeamRow(first, g)
    BY <1>1
  <2>2. d.id = TeamId(g) /\ g \in Groups
    BY <2>1, RowIds DEF RowsOK
  <2>3. TeamId(g) \in Id
    BY <2>2 DEF TeamId
  <2> QED BY <2>2, <2>3, SharedDataAssumption
<1>2. CASE \E g \in GroupsWithoutTeam : d = GroupRow(first, g)
  <2>1. PICK g \in GroupsWithoutTeam : d = GroupRow(first, g)
    BY <1>2
  <2>2. d.id = <<"m365_group", g>> /\ g \in Groups
    BY <2>1, RowIds DEF GroupsWithoutTeam
  <2>3. <<"m365_group", g>> \in Id
    BY <2>2
  <2> QED BY <2>2, <2>3, SharedDataAssumption
<1>3. CASE \E r \in StandaloneRows : d = SiteRow(first, r)
  <2>1. PICK r \in StandaloneRows : d = SiteRow(first, r)
    BY <1>3
  <2>2. d.id = SiteId(SiteOf(r)) /\ SiteOf(r) \in Sites
    BY <2>1, RowIds DEF StandaloneRows, RowsOK, RowOK
  <2>3. SiteId(SiteOf(r)) \in Id
    BY <2>2 DEF SiteId
  <2> QED BY <2>2, <2>3, SharedDataAssumption
<1> QED BY <1>1, <1>2, <1>3, RowKinds

(* The former addresses of a site have the same primary site.              *)
LEMMA SameIdSameHub ==
  ASSUME RowsOK, NEW first, NEW d \in DataSetRows(first), NEW e \in DataSetRows(first),
         d.id = e.id
  PROVE  d.is_hub = e.is_hub
<1>1. CASE \E r, q \in StandaloneRows :
             d = SiteRow(first, r) /\ e = SiteRow(first, q) /\ SiteOf(r) = SiteOf(q)
  <2>1. PICK r \in StandaloneRows, q \in StandaloneRows :
          d = SiteRow(first, r) /\ e = SiteRow(first, q) /\ SiteOf(r) = SiteOf(q)
    BY <1>1
  <2> DEFINE site == TheOne(Firsts(first, SiteOf(r)))
  <2>2. d.is_hub = (site # NoValue /\ site.is_hub_site = TRUE)
    BY <2>1 DEF SiteRow, DataSet
  <2>3. e.is_hub = (site # NoValue /\ site.is_hub_site = TRUE)
    BY <2>1 DEF SiteRow, DataSet
  <2> QED BY <2>2, <2>3
<1> QED BY <1>1, OneRow

(* The rows of a family key that is a hub are the hub and its members.     *)
LEMMA FamilyIs ==
  ASSUME RowsOK, NEW first, NEW d \in DataSetRows(first), d.is_hub = TRUE,
         NEW e \in DataSetRows(first)
  PROVE  /\ FamilyKey(e) = d.id <=> e.hub = d.id \/ e.id = d.id
         /\ ~(e.hub = d.id /\ e.id = d.id)
<1>1. d.id # NoValue
  BY IdIsValue
<1>2. e.is_hub \in BOOLEAN /\ (e.is_hub = TRUE => e.hub = NoValue)
  BY RowIsHub
<1>3. e.id = d.id => e.is_hub = TRUE
  BY SameIdSameHub
<1>4. CASE e.is_hub = TRUE
  BY <1>1, <1>2, <1>4 DEF FamilyKey
<1>5. CASE e.is_hub = FALSE
  BY <1>3, <1>5 DEF FamilyKey
<1> QED BY <1>2, <1>4, <1>5

(* One query lists finitely many rows.                                     *)
LEMMA FiniteImage ==
  ASSUME NEW S, IsFiniteSet(S), NEW f, DOMAIN f = S
  PROVE  IsFiniteSet({f[x] : x \in S})
<1> DEFINE T == {f[x] : x \in S}
           h == [x \in S |-> f[x]]
<1>1. h \in Surjection(S, T)
  BY DEF Surjection
<1> QED BY <1>1, FS_Surjection

LEMMA RowsAreFinite ==
  ASSUME RowsOK, NEW first PROVE IsFiniteSet(DataSetRows(first))
<1>1. IsFiniteSet(teams) /\ IsFiniteSet(GroupsWithoutTeam) /\ IsFiniteSet(StandaloneRows)
  BY FS_Subset, SharedDataAssumption DEF RowsOK, GroupsWithoutTeam, StandaloneRows
<1> DEFINE t == [g \in teams |-> TeamRow(first, g)]
           w == [g \in GroupsWithoutTeam |-> GroupRow(first, g)]
           s == [r \in StandaloneRows |-> SiteRow(first, r)]
<1>2. IsFiniteSet({t[g] : g \in teams})
  BY <1>1, FiniteImage
<1>3. IsFiniteSet({w[g] : g \in GroupsWithoutTeam})
  BY <1>1, FiniteImage
<1>4. IsFiniteSet({s[r] : r \in StandaloneRows})
  BY <1>1, FiniteImage
<1> DEFINE T == {t[g] : g \in teams}
           W == {w[g] : g \in GroupsWithoutTeam}
           R == {s[r] : r \in StandaloneRows}
<1>5. DataSetRows(first) = (T \cup W) \cup R
  BY RowsAre
<1>6. IsFiniteSet(T) /\ IsFiniteSet(W) /\ IsFiniteSet(R)
  BY <1>2, <1>3, <1>4
<1> HIDE DEF T, W, R
<1>7. IsFiniteSet(T \cup W)
  BY <1>6, FS_Union
<1> QED BY <1>5, <1>6, <1>7, FS_Union

(* The rows of the table are as many as those whose sizes they state.      *)
LEMMA SizedRows ==
  ASSUME NEW all, IsFiniteSet(all), NEW P \in SUBSET all, NEW table,
         \A r, q \in table : r.data_set = q.data_set => r = q,
         \A d \in all : \E r \in table : r.data_set = d
  PROVE  Cardinality({r \in table : r.data_set \in P}) = Cardinality(P)
<1> DEFINE T == {r \in table : r.data_set \in P}
           f == [d \in P |-> CHOOSE r \in table : r.data_set = d]
<1>1. IsFiniteSet(P)
  BY FS_Subset
<1>2. \A d \in P : f[d] \in table /\ f[d].data_set = d
  OBVIOUS
<1>3. f \in Injection(P, T)
  BY <1>2 DEF Injection, IsInjective
<1>4. f \in Surjection(P, T)
  <2>1. \A r \in T : r.data_set \in P /\ f[r.data_set] = r
    BY <1>2
  <2> HIDE DEF f
  <2> QED BY <1>3, <2>1 DEF Surjection, Injection
<1>5. ExistsBijection(P, T)
  BY <1>3, <1>4, Zenon DEF ExistsBijection, Bijection
<1> QED BY <1>1, <1>5, FS_Bijection

LEMMA InvFamilies == SitesInv => FamiliesAgree
<1> SUFFICES ASSUME SitesInv, "shared_data_sets" \in current,
                    NEW r \in shared_data_sets, r.data_set.is_hub
             PROVE  LET family == {q \in shared_data_sets : q.data_set.hub = r.data_set.id}
                        hubs == {q \in shared_data_sets : q.data_set.id = r.data_set.id}
                    IN \A q \in family \cup hubs :
                          q.hub_family_size = Cardinality(family) + Cardinality(hubs)
  BY DEF FamiliesAgree
<1> DEFINE k == r.data_set.id
           family == {q \in shared_data_sets : q.data_set.hub = k}
           hubs == {q \in shared_data_sets : q.data_set.id = k}
<1>1. PICK first \in SUBSET sites :
        /\ \A q \in shared_data_sets :
             /\ q.data_set \in DataSetRows(first)
             /\ q.hub_family_size = FamilySize(q.data_set, DataSetRows(first))
        /\ \A x, y \in shared_data_sets : x.data_set = y.data_set => x = y
        /\ \A d \in DataSetRows(first) : \E q \in shared_data_sets : q.data_set = d
  BY ListedRows
<1> DEFINE all == DataSetRows(first)
           M == {e \in all : e.hub = k}
           H == {e \in all : e.id = k}
           F == {e \in all : FamilyKey(e) = k}
<1>2. RowsOK /\ IsFiniteSet(all)
  BY RowsAreFinite DEF SitesInv
<1>3. r.data_set \in all /\ r.data_set.is_hub = TRUE /\ k # NoValue
  BY <1>1, <1>2, IdIsValue, RowIsHub
<1>4. F = M \cup H /\ M \cap H = {}
  <2>1. \A e \in all : /\ FamilyKey(e) = k <=> e.hub = k \/ e.id = k
                       /\ ~(e.hub = k /\ e.id = k)
    BY <1>2, <1>3, FamilyIs
  <2> QED BY <2>1
<1>5. Cardinality(F) = Cardinality(M) + Cardinality(H)
  <2>1. IsFiniteSet(M) /\ IsFiniteSet(H)
    BY <1>2, FS_Subset
  <2>2. /\ Cardinality(M \cup H) = Cardinality(M) + Cardinality(H) - Cardinality(M \cap H)
        /\ Cardinality(M \cap H) = 0
    BY <1>4, <2>1, FS_Union, FS_EmptySet
  <2>3. Cardinality(M) \in Nat /\ Cardinality(H) \in Nat
    BY <2>1, FS_CardinalityType
  <2> HIDE DEF M, H, F, all
  <2> QED BY <1>4, <2>2, <2>3
<1>6. Cardinality(family) = Cardinality(M) /\ Cardinality(hubs) = Cardinality(H)
  <2>1. /\ Cardinality({q \in shared_data_sets : q.data_set \in M}) = Cardinality(M)
        /\ Cardinality({q \in shared_data_sets : q.data_set \in H}) = Cardinality(H)
    <3>1. M \in SUBSET all /\ H \in SUBSET all
      OBVIOUS
    <3> HIDE DEF M, H
    <3> QED BY <1>1, <1>2, <3>1, SizedRows
  <2>2. /\ family = {q \in shared_data_sets : q.data_set \in M}
        /\ hubs = {q \in shared_data_sets : q.data_set \in H}
    BY <1>1
  <2> QED BY <2>1, <2>2
<1>7. ASSUME NEW q \in family \cup hubs PROVE q.hub_family_size = Cardinality(F)
  <2>1. /\ q.data_set \in all /\ q.data_set \in F
        /\ q.hub_family_size = FamilySize(q.data_set, all)
    BY <1>1, <1>4
  <2>2. FamilyKey(q.data_set) = k
    BY <2>1
  <2> HIDE DEF k, all, family, hubs
  <2> QED BY <1>3, <2>1, <2>2 DEF FamilySize
<1> QED BY <1>5, <1>6, <1>7

LEMMA InvCounts == SitesInv => DerivedCountsAgree
BY InvChannels, InvFamilies DEF DerivedCountsAgree

(* What a table counts of the rows another derives is their number, and    *)
(* the hub and the members of a family state the same size.                *)
THEOREM DerivedCountsAgreeHolds == Spec => []DerivedCountsAgree
BY InvCounts, SitesInvHolds, PTL

-----------------------------------------------------------------------------
(* Organizations of the owners.                                            *)

(* A set of naturals that is not empty has a least element.                *)
LEMMA LeastOf ==
  ASSUME NEW T \in SUBSET Nat, T # {}
  PROVE  \E x \in T : \A y \in T : x <= y
<1> DEFINE Less == OpToRel(<, Nat)
<1>1. IsWellFoundedOn(Less, Nat)
  BY NatLessThanWellFounded
<1>2. \A x, y \in Nat : y < x => <<y, x>> \in Less
  BY DEF OpToRel
<1> HIDE DEF Less
<1>3. \E x \in T : \A y \in T : ~(<<y, x>> \in Less)
  BY <1>1, WFMin, Zenon
<1>4. PICK x \in T : \A y \in T : ~(<<y, x>> \in Less)
  BY <1>3
<1>5. \A y \in T : ~(y < x)
  BY <1>2, <1>4
<1> QED BY <1>5

(* The owners of a group in scope whose organization is one of these.      *)
VotersOf(g, O) == {u \in InScope(g) : people[u] \in O}

LEMMA VotersAreCounted ==
  ASSUME NEW g, NEW O, NEW o \in O
  PROVE  /\ Cardinality(InScope(g)) \in Nat
         /\ Votes(g, o) \in Nat /\ Votes(g, o) <= Cardinality(InScope(g))
         /\ Cardinality(VotersOf(g, O)) \in Nat
         /\ Cardinality(VotersOf(g, O)) <= Cardinality(InScope(g))
         /\ Cardinality(VotersOf(g, O)) = Cardinality(VotersOf(g, O \ {o})) + Votes(g, o)
<1> DEFINE V == {u \in InScope(g) : people[u] = o}
           A == VotersOf(g, O)
           B == VotersOf(g, O \ {o})
           S == InScope(g)
<1>1. IsFiniteSet(S)
  BY FS_Subset, SharedDataAssumption DEF InScope, OwnersOf
<1>2. A \subseteq S /\ B \subseteq S /\ V \subseteq S /\ A = B \cup V /\ B \cap V = {}
  BY DEF VotersOf
<1>3. Votes(g, o) = Cardinality(V)
  BY DEF Votes
<1> HIDE DEF A, B, V, S
<1>4. IsFiniteSet(A) /\ IsFiniteSet(B) /\ IsFiniteSet(V)
  BY <1>1, <1>2, FS_Subset
<1>5. /\ Cardinality(A) \in Nat /\ Cardinality(B) \in Nat /\ Cardinality(V) \in Nat
      /\ Cardinality(S) \in Nat
  BY <1>1, <1>4, FS_CardinalityType
<1>6. Cardinality(A) <= Cardinality(S) /\ Cardinality(V) <= Cardinality(S)
  BY <1>1, <1>2, FS_Subset
<1>7. /\ Cardinality(B \cup V) = Cardinality(B) + Cardinality(V) - Cardinality(B \cap V)
      /\ Cardinality(B \cap V) = 0
  BY <1>2, <1>4, FS_Union, FS_EmptySet
<1>8. Cardinality(A) = Cardinality(B) + Cardinality(V)
  BY <1>2, <1>5, <1>7
<1> QED BY <1>3, <1>5, <1>6, <1>8 DEF A, B, S

(* The organization that comes first of all of them.                       *)
ComesFirst(g, o) ==
  \A p \in Orgs : Votes(g, p) < Votes(g, o) \/ (Votes(g, p) = Votes(g, o) /\ o <= p)

LEMMA SomeComesFirst ==
  ASSUME NEW g, NEW v \in Orgs, Votes(g, v) > 0
  PROVE  \E o \in Orgs : Votes(g, o) > 0 /\ ComesFirst(g, o)
<1> DEFINE n == Cardinality(InScope(g))
           T == {n - Votes(g, o) : o \in Orgs}
<1>1. n \in Nat /\ \A o \in Orgs : Votes(g, o) \in Nat /\ Votes(g, o) <= n
  BY VotersAreCounted
<1> HIDE DEF n
<1>2. T \in SUBSET Nat /\ T # {}
  BY <1>1
<1>3. PICK x \in T : \A y \in T : x <= y
  BY <1>2, LeastOf
<1>4. PICK m \in Orgs : x = n - Votes(g, m)
  BY <1>3
<1>5. ASSUME NEW o \in Orgs PROVE Votes(g, o) <= Votes(g, m)
  <2>1. n - Votes(g, m) <= n - Votes(g, o)
    BY <1>3, <1>4
  <2>2. Votes(g, o) \in Nat /\ Votes(g, m) \in Nat
    BY <1>1
  <2> QED BY <1>1, <2>1, <2>2
<1> DEFINE M == {o \in Orgs : Votes(g, o) = Votes(g, m)}
<1>6. M \in SUBSET Nat /\ M # {}
  BY <1>4, SharedDataAssumption
<1>7. PICK c \in M : \A p \in M : c <= p
  BY <1>6, LeastOf
<1>8. c \in Orgs /\ Votes(g, c) = Votes(g, m) /\ \A p \in Orgs : Votes(g, p) = Votes(g, c) => c <= p
  BY <1>7
<1>9. Votes(g, c) > 0
  BY <1>1, <1>4, <1>5, <1>8
<1>10. ComesFirst(g, c)
  BY <1>1, <1>5, <1>8 DEF ComesFirst
<1> QED BY <1>8, <1>9, <1>10

(* It is the primary one, and no other is first.                           *)
LEMMA PrimaryComesFirst ==
  ASSUME NEW g, NEW o \in Orgs, Votes(g, o) > 0
  PROVE  ComesFirst(g, o) <=> o = PrimaryOrg(g)
<1> DEFINE wins(x, p) == Votes(g, x) > Votes(g, p) \/ (Votes(g, x) = Votes(g, p) /\ x <= p)
           voted == {x \in Orgs : Votes(g, x) > 0}
           c == CHOOSE x \in voted : \A p \in voted : wins(x, p)
<1>1. PrimaryOrg(g) = c
  BY DEF PrimaryOrg
<1>2. \A x \in Orgs : Votes(g, x) \in Nat /\ x \in Nat
  BY VotersAreCounted, SharedDataAssumption
<1>3. \E x \in voted : \A p \in voted : wins(x, p)
  <2>1. PICK x \in Orgs : Votes(g, x) > 0 /\ ComesFirst(g, x)
    BY SomeComesFirst
  <2>2. \A p \in voted : wins(x, p)
    BY <1>2, <2>1 DEF ComesFirst
  <2> QED BY <2>1, <2>2
<1>4. c \in voted /\ \A p \in voted : wins(c, p)
  BY <1>3
<1> HIDE DEF c
<1>5. c \in Orgs /\ Votes(g, c) > 0
  BY <1>4
<1>6. ASSUME ComesFirst(g, o) PROVE o = c
  <2>1. wins(c, o)
    BY <1>4
  <2>2. Votes(g, c) < Votes(g, o) \/ (Votes(g, c) = Votes(g, o) /\ o <= c)
    BY <1>5, <1>6 DEF ComesFirst
  <2>3. Votes(g, c) \in Nat /\ Votes(g, o) \in Nat /\ o \in Nat /\ c \in Nat
    BY <1>2, <1>5
  <2> QED BY <2>1, <2>2, <2>3
<1>7. ComesFirst(g, c)
  <2> SUFFICES ASSUME NEW p \in Orgs
               PROVE  Votes(g, p) < Votes(g, c) \/ (Votes(g, p) = Votes(g, c) /\ c <= p)
    BY DEF ComesFirst
  <2>1. Votes(g, c) \in Nat /\ Votes(g, p) \in Nat
    BY <1>2, <1>5
  <2>2. CASE p \in voted
    <3>1. wins(c, p)
      BY <1>4, <2>2
    <3> QED BY <2>1, <3>1
  <2>3. CASE p \notin voted
    BY <1>5, <2>1, <2>3
  <2> QED BY <2>2, <2>3
<1> QED BY <1>1, <1>6, <1>7

(* What the organizations of a row say together is the number of owners    *)
(* that are of one of them.                                                *)
LEMMA SumOfVotes ==
  ASSUME NEW g, NEW own,
         \A o \in Orgs :
           (IF \E q \in own : q.organization = o
            THEN (CHOOSE q \in own : q.organization = o).owners_in_org
            ELSE 0) = Votes(g, o)
  PROVE  OwnersInAll(own) = Cardinality(VotersOf(g, Orgs))
<1> DEFINE w(o) == IF \E q \in own : q.organization = o
                   THEN (CHOOSE q \in own : q.organization = o).owners_in_org
                   ELSE 0
           Step(f, O) == IF O = {} THEN 0
                         ELSE LET o == CHOOSE x \in O : TRUE IN f[O \ {o}] + w(o)
           IsSum(f) == f = [O \in SUBSET Orgs |-> Step(f, O)]
           sum == CHOOSE f : IsSum(f)
           count == [O \in SUBSET Orgs |-> Cardinality(VotersOf(g, O))]
<1>1. OwnersInAll(own) = sum[Orgs]
  BY DEF OwnersInAll
<1>2. \A o \in Orgs : w(o) = Votes(g, o)
  OBVIOUS
<1> HIDE DEF w
<1>3. ASSUME NEW O \in SUBSET Orgs PROVE Cardinality(VotersOf(g, O)) = Step(count, O)
  <2>1. CASE O = {}
    <3>1. VotersOf(g, O) = {}
      BY <2>1 DEF VotersOf
    <3> QED BY <2>1, <3>1, FS_EmptySet
  <2>2. CASE O # {}
    <3> DEFINE o == CHOOSE x \in O : TRUE
    <3>1. o \in O
      BY <2>2
    <3>2. \A x \in O : Cardinality(VotersOf(g, O)) = Cardinality(VotersOf(g, O \ {x})) + Votes(g, x)
      BY VotersAreCounted
    <3>3. count[O \ {o}] = Cardinality(VotersOf(g, O \ {o})) /\ w(o) = Votes(g, o)
      BY <1>2, <3>1
    <3>4. Step(count, O) = count[O \ {o}] + w(o)
      BY <2>2
    <3> QED BY <3>1, <3>2, <3>3, <3>4
  <2> QED BY <2>1, <2>2
<1>4. IsSum(count)
  <2> HIDE DEF Step
  <2> QED BY <1>3
<1>5. IsSum(sum)
  <2> HIDE DEF IsSum, count
  <2> QED BY <1>4
<1>6. \A O \in SUBSET Orgs : sum[O] = Step(sum, O)
  <2> HIDE DEF sum, Step
  <2> QED BY <1>5
<1>7. \A O \in SUBSET Orgs : count[O] = Step(count, O) /\ count[O] = Cardinality(VotersOf(g, O))
  <2> HIDE DEF Step
  <2> QED BY <1>3
<1> DEFINE Smaller == StrictSubsetOrdering(Orgs)
           D == {O \in SUBSET Orgs : sum[O] # count[O]}
<1>8. IsWellFoundedOn(Smaller, SUBSET Orgs)
  BY FS_StrictSubsetOrderingWellFounded, FS_FiniteSubsetsOfFinite, SharedDataAssumption
<1>9. \A A, B \in SUBSET Orgs : A \subseteq B /\ A # B => <<A, B>> \in Smaller
  BY DEF StrictSubsetOrdering
<1> HIDE DEF Smaller, sum, count, Step
<1>10. D = {}
  <2> SUFFICES ASSUME D # {} PROVE FALSE
    OBVIOUS
  <2>1. D \subseteq SUBSET Orgs
    OBVIOUS
  <2>2. \E x \in D : \A y \in D : ~(<<y, x>> \in Smaller)
    <3> HIDE DEF D
    <3> QED BY <1>8, <2>1, WFMin, Zenon
  <2>3. PICK O \in D : \A y \in D : ~(<<y, O>> \in Smaller)
    BY <2>2
  <2>4. O # {}
    BY <1>6, <1>7, <2>3 DEF Step
  <2> DEFINE o == CHOOSE x \in O : TRUE
  <2>5. o \in O
    BY <2>4
  <2> HIDE DEF o
  <2>6. O \ {o} \in SUBSET Orgs /\ O \ {o} # O /\ O \ {o} \subseteq O
    BY <2>5
  <2>7. sum[O \ {o}] = count[O \ {o}]
    BY <1>9, <2>3, <2>6
  <2>8. sum[O] = sum[O \ {o}] + w(o) /\ count[O] = count[O \ {o}] + w(o)
    BY <1>6, <1>7, <2>4 DEF Step, o
  <2> QED BY <2>3, <2>7, <2>8
<1>11. sum[Orgs] = count[Orgs]
  BY <1>10
<1> QED BY <1>1, <1>7, <1>11

(* The rows of a data set are those of its group's owners.                 *)
LEMMA OwnRows ==
  ASSUME SitesInv, "shared_data_sets" \in current,
         "shared_data_set_organizations" \in current,
         NEW r \in {x.data_set : x \in shared_data_sets},
         NEW z \in organizations, z.data_set = r.id
  PROVE  LET own == {q \in organizations : q.data_set = r.id} IN
         \E g :
           /\ r.organization = PrimaryOrg(g) /\ r.owners_in_scope = Cardinality(InScope(g))
           /\ \A q \in own :
                /\ q.organization \in Orgs /\ Votes(g, q.organization) > 0
                /\ q.owners_in_org = Votes(g, q.organization)
                /\ q.owners_in_scope = Cardinality(InScope(g))
                /\ q.is_primary <=> ComesFirst(g, q.organization)
           /\ \A o \in Orgs : Votes(g, o) > 0 => \E q \in own : q.organization = o
<1> DEFINE own == {q \in organizations : q.data_set = r.id}
           backed == {x.data_set : x \in {y \in shared_data_sets : y.data_set.id[1] # "site"}}
           votes(b, o) == Votes(b.id[2], o)
           first(b, o) == \A p \in Orgs : \/ votes(b, p) < votes(b, o)
                                          \/ votes(b, p) = votes(b, o) /\ o <= p
           row(b, o) == [data_set |-> b.id, organization |-> o, owners_in_org |-> votes(b, o),
                         owners_in_scope |-> b.owners_in_scope, is_primary |-> first(b, o)]
<1>1. PICK prim \in SUBSET sites :
        \A x \in shared_data_sets : x.data_set \in DataSetRows(prim)
  BY ListedRows
<1>2. organizations = {row(p[1], p[2]) : p \in {q \in backed \X Orgs : votes(q[1], q[2]) > 0}}
  BY DEF SitesInv, OrganizationsOfSilver, Organizations
<1>3. \A b, o : /\ row(b, o).data_set = b.id /\ row(b, o).organization = o
                /\ row(b, o).owners_in_org = votes(b, o)
                /\ row(b, o).owners_in_scope = b.owners_in_scope
                /\ row(b, o).is_primary = first(b, o)
  OBVIOUS
<1> HIDE DEF row
<1>4. ASSUME NEW b \in backed, b.id = r.id PROVE b = r
  <2>1. b \in DataSetRows(prim) /\ r \in DataSetRows(prim) /\ b.id[1] # "site"
    BY <1>1
  <2>2. \A x : SiteRow(prim, x).id[1] = "site"
    <3> TAKE x
    <3>1. SiteRow(prim, x).id = SiteId(SiteOf(x))
      BY RowIds
    <3> QED BY <3>1 DEF SiteId
  <2>3. RowsOK
    BY DEF SitesInv
  <2> QED BY <1>4, <2>1, <2>2, <2>3, OneRow
<1>5. ASSUME NEW q \in own
      PROVE  \E o \in Orgs : r \in backed /\ q = row(r, o) /\ votes(r, o) > 0
  <2>1. PICK p \in backed \X Orgs : votes(p[1], p[2]) > 0 /\ q = row(p[1], p[2])
    BY <1>2
  <2>2. p[1] \in backed /\ p[2] \in Orgs /\ p[1].id = r.id
    BY <1>3, <2>1
  <2>3. p[1] = r
    BY <1>4, <2>2
  <2> QED BY <2>1, <2>2, <2>3
<1>6. r \in backed
  BY <1>5
<1>7. r \in DataSetRows(prim) /\ r.id[1] # "site"
  BY <1>1, <1>6
<1>8. PICK g : /\ r.id[2] = g /\ r.organization = PrimaryOrg(g)
               /\ r.owners_in_scope = Cardinality(InScope(g))
  <2>1. ASSUME NEW g \in teams, r = TeamRow(prim, g)
        PROVE  r.id[2] = g /\ r.organization = PrimaryOrg(g)
               /\ r.owners_in_scope = Cardinality(InScope(g))
    <3>1. r.id = TeamId(g)
      BY <2>1, RowIds
    <3>2. /\ TeamRow(prim, g).organization = PrimaryOrg(g)
          /\ TeamRow(prim, g).owners_in_scope = Cardinality(InScope(g))
      BY TeamFields, Zenon
    <3>3. r.id[2] = g
      BY <3>1 DEF TeamId
    <3> QED BY <2>1, <3>2, <3>3
  <2>2. ASSUME NEW g \in GroupsWithoutTeam, r = GroupRow(prim, g)
        PROVE  r.id[2] = g /\ r.organization = PrimaryOrg(g)
               /\ r.owners_in_scope = Cardinality(InScope(g))
    <3>1. r.id = <<"m365_group", g>>
      BY <2>2, RowIds
    <3>2. /\ GroupRow(prim, g).organization = PrimaryOrg(g)
          /\ GroupRow(prim, g).owners_in_scope = Cardinality(InScope(g))
      BY GroupFields, Zenon
    <3>3. r.id[2] = g
      BY <3>1
    <3> QED BY <2>2, <3>2, <3>3
  <2>3. ASSUME NEW x \in StandaloneRows, r = SiteRow(prim, x) PROVE FALSE
    <3>1. r.id = SiteId(SiteOf(x))
      BY <2>3, RowIds
    <3> QED BY <1>7, <3>1 DEF SiteId
  <2> QED BY <1>7, <2>1, <2>2, <2>3, RowKinds
<1>9. \A o : votes(r, o) = Votes(g, o)
  BY <1>8
<1>10. \A o : first(r, o) = ComesFirst(g, o)
  BY <1>9 DEF ComesFirst
<1> HIDE DEF votes, first
<1>11. ASSUME NEW q \in own
       PROVE  /\ q.organization \in Orgs /\ Votes(g, q.organization) > 0
              /\ q.owners_in_org = Votes(g, q.organization)
              /\ q.owners_in_scope = Cardinality(InScope(g))
              /\ q.is_primary <=> ComesFirst(g, q.organization)
  <2>1. PICK o \in Orgs : q = row(r, o) /\ votes(r, o) > 0
    BY <1>5
  <2>2. /\ q.organization = o /\ q.owners_in_org = votes(r, o)
        /\ q.owners_in_scope = r.owners_in_scope /\ q.is_primary = first(r, o)
    BY <1>3, <2>1
  <2> QED BY <1>8, <1>9, <1>10, <2>1, <2>2
<1>12. ASSUME NEW o \in Orgs, Votes(g, o) > 0 PROVE \E q \in own : q.organization = o
  <2>1. <<r, o>> \in {q \in backed \X Orgs : votes(q[1], q[2]) > 0}
    BY <1>6, <1>9, <1>12
  <2>2. row(r, o) \in organizations
    BY <1>2, <2>1
  <2> QED BY <1>3, <2>2
<1> QED BY <1>8, <1>11, <1>12

LEMMA InvOrganizations == SitesInv => OrganizationsAddUp
<1> SUFFICES ASSUME SitesInv, "shared_data_sets" \in current,
                    "shared_data_set_organizations" \in current,
                    NEW r \in {x.data_set : x \in shared_data_sets},
                    NEW z \in {q \in organizations : q.data_set = r.id}
             PROVE  /\ OwnersInAll({q \in organizations : q.data_set = r.id}) <= z.owners_in_scope
                    /\ z.is_primary <=> z.organization = r.organization
  BY DEF OrganizationsAddUp
<1> DEFINE own == {q \in organizations : q.data_set = r.id}
<1>1. PICK g :
        /\ r.organization = PrimaryOrg(g) /\ r.owners_in_scope = Cardinality(InScope(g))
        /\ \A q \in own :
             /\ q.organization \in Orgs /\ Votes(g, q.organization) > 0
             /\ q.owners_in_org = Votes(g, q.organization)
             /\ q.owners_in_scope = Cardinality(InScope(g))
             /\ q.is_primary <=> ComesFirst(g, q.organization)
        /\ \A o \in Orgs : Votes(g, o) > 0 => \E q \in own : q.organization = o
  BY OwnRows
<1> HIDE DEF own
<1>2. ASSUME NEW o \in Orgs
      PROVE  (IF \E q \in own : q.organization = o
              THEN (CHOOSE q \in own : q.organization = o).owners_in_org
              ELSE 0) = Votes(g, o)
  <2>1. CASE \E q \in own : q.organization = o
    <3> DEFINE c == CHOOSE q \in own : q.organization = o
    <3>1. c \in own /\ c.organization = o
      BY <2>1
    <3>2. c.owners_in_org = Votes(g, o)
      BY <1>1, <3>1
    <3> QED BY <2>1, <3>2
  <2>2. CASE ~\E q \in own : q.organization = o
    <3>1. Votes(g, o) \in Nat /\ ~(Votes(g, o) > 0)
      BY <1>1, <2>2, VotersAreCounted
    <3> QED BY <2>2, <3>1
  <2> QED BY <2>1, <2>2
<1>3. OwnersInAll(own) = Cardinality(VotersOf(g, Orgs))
  BY <1>2, SumOfVotes
<1>4. z \in own /\ z.organization \in Orgs
  BY <1>1 DEF own
<1>5. Cardinality(VotersOf(g, Orgs)) <= Cardinality(InScope(g))
  BY <1>4, VotersAreCounted
<1>6. z.owners_in_scope = Cardinality(InScope(g))
  BY <1>1, <1>4
<1>7. z.is_primary <=> z.organization = PrimaryOrg(g)
  BY <1>1, <1>4, PrimaryComesFirst
<1> QED BY <1>1, <1>3, <1>5, <1>6, <1>7 DEF own

(* The shares of the organizations of a row add up to at most one, and the *)
(* largest is that of its primary organization, for any owners.            *)
THEOREM OrganizationsAddUpHolds == Spec => []OrganizationsAddUp
BY InvOrganizations, SitesInvHolds, PTL
=============================================================================
