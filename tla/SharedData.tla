----------------------------- MODULE SharedData -----------------------------
(***************************************************************************)
(* What is migrated besides the users: teams, Microsoft 365 groups and     *)
(* SharePoint sites, for one tenant.  Gold builds three tables from silver: *)
(* shared_data_sets (a row per team, group or standalone site), dim_sites  *)
(* (a row per site that is not personal) and                               *)
(* shared_data_set_organizations (the organizations of the owners).  The   *)
(* ids that tie them together are derived independently in each table, from *)
(* silver tables that are filled by different ingest jobs at different     *)
(* times.                                                                  *)
(*                                                                         *)
(* What the tenant looks like is chosen at the start; groups may become    *)
(* teams and sites may be renamed.  An address is the address of a site    *)
(* after so many renames, the anchor of an id a group or site.             *)
(* Sizes, names and lock states are left out.                              *)
(***************************************************************************)
EXTENDS Naturals, FiniteSets

CONSTANTS
    Sites,
    Groups,
    Owners,         \* users who own groups
    Orgs,           \* organizations, in the order of their ids
    NoValue,        \* NULL, or the zero GUID
    Absent,         \* no row
    MaxRenames,     \* bound: renames of a site
    MaxChanges      \* bound: changes of the tables gold reads

ASSUME SharedDataAssumption ==
    /\ IsFiniteSet(Groups) /\ IsFiniteSet(Owners) /\ IsFiniteSet(Orgs)
    /\ Orgs \subseteq Nat
    /\ NoValue \notin Groups \cup BOOLEAN
    /\ NoValue \notin {"site", "team", "m365_group"} \X (Sites \cup Groups)
    /\ Absent # NoValue
    /\ MaxRenames \in Nat
    /\ MaxChanges \in Nat

VARIABLES
    shape,          \* the tenant: what each site is
    teamed,         \* the tenant: the groups that are teams
    renames,        \* the tenant: how often each site has been renamed
    details,        \* bronze.spo_site_details: the latest of each address
    sites,          \* silver.spo_sites
    exo_groups,     \* silver.exo_unified_groups: is_team_enabled
    teams,          \* silver.teams
    group_owners,   \* silver.group_owners
    people,         \* gold.dim_people: the organization of an owner in scope
    shared_data_sets,
    dim_sites,
    organizations,  \* shared_data_set_organizations
    current,        \* the gold tables computed since their sources last changed
    changes

tenant == <<shape, teamed, renames>>
siteTables == <<details, sites>>
groupTables == <<exo_groups, teams, group_owners, people>>
gold == <<shared_data_sets, dim_sites, organizations>>
vars == <<tenant, siteTables, groupTables, gold, current, changes>>

-----------------------------------------------------------------------------
(* The tenant *)

\* A hub site is its own hub; the group of a site is also its related group; a
\* channel site has a related group only; a personal site has none of it.
Shapes(s) ==
    {k \in [personal : BOOLEAN, is_hub : BOOLEAN, hub : Sites \cup {NoValue},
            group : Groups \cup {NoValue}, related : Groups \cup {NoValue}, channel : 0..2] :
        /\ k.is_hub <=> k.hub = s
        /\ k.channel = 0 => k.related = k.group
        /\ k.channel # 0 => k.group = NoValue /\ k.related # NoValue /\ ~k.is_hub
        /\ k.personal => k.hub = NoValue /\ k.related = NoValue /\ k.channel = 0}

\* The hub of a site is a hub; a group has at most one site of its own.
IsTenant(k) ==
    /\ \A s \in Sites : k[s].hub \in Sites => k[k[s].hub].is_hub
    /\ \A s, z \in Sites : k[s].group = k[z].group /\ s # z => k[s].group = NoValue

Address(s) == <<s, renames[s]>>
SiteOf(row) == row.address[1]

\* What SharePoint says of a site.
DetailsOf(s) ==
    [address |-> Address(s),
     is_hub_site |-> shape[s].is_hub,
     hub_site_id |-> shape[s].hub,
     group_id |-> shape[s].group,
     related_group_id |-> shape[s].related,
     teams_channel_type |-> shape[s].channel,
     is_teams_connected |-> shape[s].group \in teamed,
     is_teams_channel_connected |-> shape[s].channel # 0]

\* The columns of a site whose details have not been landed.
NoDetails(a) ==
    [address |-> a, is_hub_site |-> NoValue, hub_site_id |-> NoValue,
     group_id |-> NoValue, related_group_id |-> NoValue, teams_channel_type |-> NoValue,
     is_teams_connected |-> NoValue, is_teams_channel_connected |-> NoValue]

IsPersonal(row) == shape[SiteOf(row)].personal

-----------------------------------------------------------------------------
(* Ids: type and anchor, hashed in the code *)

SiteId(s) == <<"site", s>>
TeamId(g) == <<"team", g>>

\* A group whose Exchange row is missing counts as one without a team.
GroupId(g) == IF exo_groups[g] = TRUE THEN TeamId(g) ELSE <<"m365_group", g>>

\* The hub a site is joined to, if silver has a row that says it is a hub.  Its
\* rows, one per address, agree on its group.
HubRows(h) == {r \in sites : SiteOf(r) = h /\ r.is_hub_site = TRUE /\ ~IsPersonal(r)}
HubId(h) ==
    IF HubRows(h) = {} THEN NoValue
    ELSE LET g == (CHOOSE r \in HubRows(h) : TRUE).group_id
         IN IF g = NoValue THEN SiteId(h) ELSE GroupId(g)

\* Mutant: a hub is a member of its own family.
HubOfMember(row) == HubId(row.hub_site_id)

\* hub_shared_data_set_id: the hub itself has none.
HubOf(row) == IF row.is_hub_site = TRUE THEN NoValue ELSE HubId(row.hub_site_id)

-----------------------------------------------------------------------------
(* shared_data_sets *)

\* The filter of standalone sites: NULL flags fail it.
Standalone(row) ==
    /\ ~IsPersonal(row)
    /\ row.group_id = NoValue
    /\ row.is_teams_channel_connected = FALSE
    /\ row.is_teams_connected = FALSE

\* Mutant: the filter on is_team_enabled is missing.
AllGroups == {g \in Groups : exo_groups[g] # Absent}

\* The groups listed as m365_group; teams are listed from silver.teams.
GroupsWithoutTeam == {g \in Groups : exo_groups[g] = FALSE}

\* Mutant: the sites of the channels are taken for the site of the group.
RelatedSites(g) == {r \in sites : r.related_group_id = g}

PrimaryCandidates(g) == {r \in sites : r.group_id = g}

\* dropDuplicates keeps some row of each group, and of each standalone site.
IsPrimary(first) ==
    /\ \A r \in first : Standalone(r) \/ \E g \in Groups : r \in PrimaryCandidates(g)
    /\ \A g \in Groups :
          /\ Cardinality(first \cap PrimaryCandidates(g)) <= 1
          /\ PrimaryCandidates(g) # {} => first \cap PrimaryCandidates(g) # {}
    /\ \A r \in sites : Standalone(r) => \E f \in first : Standalone(f) /\ SiteOf(f) = SiteOf(r)
    /\ \A r, f \in first :
          Standalone(r) /\ Standalone(f) /\ SiteOf(r) = SiteOf(f) => r = f

\* Mutant: the flag is not looked at; a site of a group is related to it, too.
RelatedRows(g) == {r \in sites : r.related_group_id = g}

\* channel_site_count is counted in silver.spo_sites.
ChannelRows(g) == {r \in sites : r.is_teams_channel_connected = TRUE /\ r.related_group_id = g}

OwnersOf(g) == {u \in Owners : <<g, u>> \in group_owners}
InScope(g) == {u \in OwnersOf(g) : people[u] # Absent}
Votes(g, o) == Cardinality({u \in InScope(g) : people[u] = o})

\* Mutant: of the organizations with most votes the greatest id comes first.
PrimaryOrgs(g) == {o \in Orgs : Votes(g, o) > 0 /\ \A p \in Orgs : Votes(g, p) <= Votes(g, o)}
LastOrg(g) ==
    IF PrimaryOrgs(g) = {} THEN NoValue
    ELSE CHOOSE o \in PrimaryOrgs(g) : \A p \in PrimaryOrgs(g) : p <= o

\* primary_organization_id: most votes, then the smallest id.
PrimaryOrg(g) ==
    LET wins(o, p) == Votes(g, o) > Votes(g, p) \/ (Votes(g, o) = Votes(g, p) /\ o <= p)
        voted == {o \in Orgs : Votes(g, o) > 0}
    IN IF voted = {} THEN NoValue ELSE CHOOSE o \in voted : \A p \in voted : wins(o, p)

\* A row before its family is counted.  "from" is the site row it comes from.
DataSet(id, from, site, channels, owners, org) ==
    [id |-> id, from |-> from,
     primary_site |-> IF site = NoValue THEN NoValue ELSE site.address,
     is_hub |-> site # NoValue /\ site.is_hub_site = TRUE,
     hub |-> IF site = NoValue THEN NoValue ELSE HubOf(site),
     channels |-> channels, owners_in_scope |-> owners, organization |-> org]

TheOne(rows) == IF rows = {} THEN NoValue ELSE CHOOSE r \in rows : TRUE

DataSetRows(first) ==
    {DataSet(TeamId(g), NoValue, TheOne(first \cap PrimaryCandidates(g)),
             Cardinality(ChannelRows(g)), Cardinality(InScope(g)), PrimaryOrg(g)) : g \in teams}
      \cup {DataSet(<<"m365_group", g>>, NoValue, TheOne(first \cap PrimaryCandidates(g)),
                    NoValue, Cardinality(InScope(g)), PrimaryOrg(g)) : g \in GroupsWithoutTeam}
      \cup {DataSet(SiteId(SiteOf(r)), r.address,
                    TheOne({f \in first : Standalone(f) /\ SiteOf(f) = SiteOf(r)}),
                    NoValue, 0, NoValue) : r \in {x \in sites : Standalone(x)}}

\* hub_family_size: the hub and the rows that refer to it.
FamilyKey(row) == IF row.is_hub THEN row.id ELSE row.hub
FamilySize(row, all) ==
    IF FamilyKey(row) = NoValue THEN 1
    ELSE Cardinality({q \in all : FamilyKey(q) = FamilyKey(row)})

SharedDataSets(first) ==
    LET all == DataSetRows(first)
    IN {[data_set |-> r, hub_family_size |-> FamilySize(r, all)] : r \in all}

-----------------------------------------------------------------------------
(* dim_sites and shared_data_set_organizations *)

SiteType(row) ==
    CASE row.is_hub_site = TRUE -> "hub"
      [] row.is_hub_site # TRUE /\ row.is_teams_channel_connected = TRUE
            /\ row.related_group_id # NoValue ->
            (CASE row.teams_channel_type = 1 -> "channel_private"
               [] row.teams_channel_type = 2 -> "channel_shared"
               [] OTHER -> "unknown")
      [] OTHER -> IF row.group_id # NoValue THEN "primary" ELSE "standalone"

IsChannel(type) == type \in {"channel_private", "channel_shared"}

\* Mutant: a channel site stands for itself.
DataSetIdOfGroup(row) ==
    IF row.group_id # NoValue THEN GroupId(row.group_id) ELSE SiteId(SiteOf(row))

\* shared_data_set_id of a site.
DataSetIdOf(row) ==
    IF IsChannel(SiteType(row)) THEN TeamId(row.related_group_id)
    ELSE IF SiteType(row) \in {"primary", "hub"} /\ row.group_id # NoValue
         THEN GroupId(row.group_id)
         ELSE SiteId(SiteOf(row))

DimSites ==
    {[address |-> r.address, site_type |-> SiteType(r), data_set |-> DataSetIdOf(r),
      hub |-> HubOf(r)] : r \in {x \in sites : ~IsPersonal(x)}}

\* Of the rows of shared_data_sets, those of teams and groups, with their owners
\* as they are now.
Organizations ==
    LET backed == {r.data_set : r \in {x \in shared_data_sets : x.data_set.id[1] # "site"}}
        votes(r, o) == Votes(r.id[2], o)
        first(r, o) == \A p \in Orgs : \/ votes(r, p) < votes(r, o)
                                       \/ votes(r, p) = votes(r, o) /\ o <= p
    IN {[data_set |-> p[1].id, organization |-> p[2], owners_in_org |-> votes(p[1], p[2]),
         owners_in_scope |-> p[1].owners_in_scope, is_primary |-> first(p[1], p[2])] :
            p \in {q \in backed \X Orgs : votes(q[1], q[2]) > 0}}

-----------------------------------------------------------------------------
(* Behaviour *)

Init ==
    /\ shape \in {k \in [Sites -> UNION {Shapes(s) : s \in Sites}] :
                     (\A s \in Sites : k[s] \in Shapes(s)) /\ IsTenant(k)}
    /\ teamed = {}
    /\ renames = [s \in Sites |-> 0]
    /\ details = {}
    /\ sites = {}
    /\ exo_groups = [g \in Groups |-> Absent]
    /\ teams = {}
    /\ group_owners = {}
    /\ people = [u \in Owners |-> Absent]
    /\ shared_data_sets = {}
    /\ dim_sites = {}
    /\ organizations = {}
    /\ current = {}
    /\ changes = 0

\* A group becomes a team; a site gets another address.
MakeTeam(g) ==
    /\ g \notin teamed
    /\ teamed' = teamed \cup {g}
    /\ UNCHANGED <<shape, renames, siteTables, groupTables, gold, current, changes>>

Rename(s) ==
    /\ renames[s] < MaxRenames
    /\ renames' = [renames EXCEPT ![s] = @ + 1]
    /\ UNCHANGED <<shape, teamed, siteTables, groupTables, gold, current, changes>>

\* What comes again as it was changes nothing.
Changed == changes < MaxChanges /\ changes' = changes + 1

\* The details of a site reach bronze; they change no table gold reads.
LandDetails(s) ==
    /\ Changed
    /\ details' = {d \in details : d.address # Address(s)} \cup {DetailsOf(s)}
    /\ details' # details
    /\ UNCHANGED <<tenant, sites, groupTables, gold, current>>

\* The staging view joins a site to the latest details in bronze when the site
\* is processed; what comes later is not joined until the site comes again.
StagedSite(s) ==
    LET known == {d \in details : d.address = Address(s)}
    IN IF known = {} THEN NoDetails(Address(s)) ELSE CHOOSE d \in known : TRUE

UpsertSite(s) ==
    /\ Changed
    /\ sites' = {r \in sites : r.address # Address(s)} \cup {StagedSite(s)}
    /\ sites' # sites
    /\ current' = {}
    /\ UNCHANGED <<tenant, details, groupTables, gold>>

UpsertGroup(g) ==
    /\ Changed
    /\ exo_groups' = [exo_groups EXCEPT ![g] = g \in teamed]
    /\ exo_groups' # exo_groups
    /\ current' = {}
    /\ UNCHANGED <<tenant, siteTables, teams, group_owners, people, gold>>

UpsertTeam(g) ==
    /\ Changed
    /\ g \in teamed \ teams
    /\ teams' = teams \cup {g}
    /\ current' = {}
    /\ UNCHANGED <<tenant, siteTables, exo_groups, group_owners, people, gold>>

\* An owner is added; revoked owners stay.
UpsertOwner(g, u) ==
    /\ Changed
    /\ <<g, u>> \notin group_owners
    /\ group_owners' = group_owners \cup {<<g, u>>}
    /\ current' = {}
    /\ UNCHANGED <<tenant, siteTables, exo_groups, teams, people, gold>>

\* dim_people is computed anew, with one row per user.
ListPeople(u, org) ==
    /\ Changed
    /\ org # people[u]
    /\ people' = [people EXCEPT ![u] = org]
    /\ current' = {}
    /\ UNCHANGED <<tenant, siteTables, exo_groups, teams, group_owners, gold>>

Computed(name) == name \notin current /\ current' = current \cup {name}

\* An update computes shared_data_set_organizations after it.
ListDataSets ==
    /\ "shared_data_sets" \notin current
    /\ current' = (current \cup {"shared_data_sets"}) \ {"shared_data_set_organizations"}
    /\ \E first \in SUBSET sites : IsPrimary(first) /\ shared_data_sets' = SharedDataSets(first)
    /\ UNCHANGED <<tenant, siteTables, groupTables, dim_sites, organizations, changes>>

ListSites ==
    /\ Computed("dim_sites")
    /\ dim_sites' = DimSites
    /\ UNCHANGED <<tenant, siteTables, groupTables, shared_data_sets, organizations, changes>>

\* It reads shared_data_sets, which the same update has computed before; its
\* other sources may have changed in between.
ListOrganizations ==
    /\ shared_data_sets # {}
    /\ Computed("shared_data_set_organizations")
    /\ organizations' = Organizations
    /\ UNCHANGED <<tenant, siteTables, groupTables, shared_data_sets, dim_sites, changes>>

Next ==
    \/ \E g \in Groups : MakeTeam(g) \/ UpsertGroup(g) \/ UpsertTeam(g)
    \/ \E s \in Sites : Rename(s) \/ LandDetails(s) \/ UpsertSite(s)
    \/ \E g \in Groups, u \in Owners : UpsertOwner(g, u)
    \/ \E u \in Owners, o \in Orgs \cup {NoValue, Absent} : ListPeople(u, o)
    \/ ListDataSets \/ ListSites \/ ListOrganizations

Spec == Init /\ [][Next]_vars

-----------------------------------------------------------------------------
(* Properties *)

\* The silver tables that different jobs fill agree: each site has its details,
\* each group that a site names its rows.
Settled ==
    /\ \A r \in sites :
          /\ r.is_hub_site # NoValue
          /\ r.group_id \in Groups => exo_groups[r.group_id] # Absent
          /\ r.is_teams_channel_connected = TRUE => r.related_group_id \in teams
    /\ \A g \in Groups : (exo_groups[g] = TRUE) <=> (g \in teams)

Ids == {r.data_set.id : r \in shared_data_sets}

(* Once silver is settled every site of dim_sites belongs to a row of      *)
(* shared_data_sets, and every hub either table refers to is one, though   *)
(* each table derives the ids by itself.                                   *)
SettledReferences ==
    {"shared_data_sets", "dim_sites"} \subseteq current /\ Settled =>
        /\ \A d \in dim_sites : d.data_set \in Ids /\ d.hub \in Ids \cup {NoValue}
        /\ \A r \in shared_data_sets : r.data_set.hub \in Ids \cup {NoValue}

(* The primary site of a row is in dim_sites as one of that row, not as    *)
(* one of its channels, and both tables have the same hub for it.          *)
PrimarySiteRefersBack ==
    {"shared_data_sets", "dim_sites"} \subseteq current /\ Settled =>
        \A r \in shared_data_sets :
            r.data_set.primary_site # NoValue =>
                \E d \in dim_sites : /\ d.address = r.data_set.primary_site
                                     /\ d.data_set = r.data_set.id
                                     /\ ~IsChannel(d.site_type)
                                     /\ d.hub = r.data_set.hub

(* channel_site_count is the number of dim_sites rows that are channels of *)
(* the team, though it is counted elsewhere to avoid a circular reference. *)
ChannelSitesCounted ==
    {"shared_data_sets", "dim_sites"} \subseteq current =>
        \A r \in shared_data_sets :
            r.data_set.channels # NoValue =>
                r.data_set.channels =
                    Cardinality({d \in dim_sites : /\ d.data_set = r.data_set.id
                                                   /\ IsChannel(d.site_type)})

(* The hub and the members of a family state the same size, which counts   *)
(* the hub and each of them.                                               *)
FamiliesAgree ==
    "shared_data_sets" \in current =>
        \A r \in shared_data_sets :
            r.data_set.is_hub =>
                LET family == {q \in shared_data_sets : q.data_set.hub = r.data_set.id}
                    hubs == {q \in shared_data_sets : q.data_set.id = r.data_set.id}
                IN \A q \in family \cup hubs :
                      q.hub_family_size = Cardinality(family) + Cardinality(hubs)

(* What a table counts of rows that another one derives, or derives twice, *)
(* is their number wherever it is stated: of channels, and of families.    *)
DerivedCountsAgree == ChannelSitesCounted /\ FamiliesAgree

(* shared_data_sets has one row per team, group or standalone site: a group *)
(* is never listed both with and without its team once silver is settled,  *)
(* and an id repeats only for the former addresses of a renamed site.      *)
OneRowPerDataSet ==
    "shared_data_sets" \in current =>
        /\ Settled => \A g \in Groups : TeamId(g) \notin Ids \/ <<"m365_group", g>> \notin Ids
        /\ \A r, q \in shared_data_sets :
              r.data_set.id = q.data_set.id => r = q \/ r.data_set.from # q.data_set.from

(* The owners of all organizations of a row together.                      *)
OwnersInAll(own) ==
    LET sum[O \in SUBSET Orgs] ==
          IF O = {} THEN 0
          ELSE LET o == CHOOSE x \in O : TRUE
               IN sum[O \ {o}]
                  + (IF \E q \in own : q.organization = o
                     THEN (CHOOSE q \in own : q.organization = o).owners_in_org
                     ELSE 0)
    IN sum[Orgs]

(* The shares of the organizations of a row add up to at most one, and the *)
(* organization with the largest share is the primary one of the row, when *)
(* both tables were computed from the same owners.                         *)
OrganizationsAddUp ==
    {"shared_data_sets", "shared_data_set_organizations"} \subseteq current =>
        \A r \in {x.data_set : x \in shared_data_sets} :
            LET own == {q \in organizations : q.data_set = r.id}
            IN \A q \in own : /\ OwnersInAll(own) <= q.owners_in_scope
                              /\ q.is_primary <=> q.organization = r.organization
=============================================================================
