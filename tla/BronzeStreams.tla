---------------------------- MODULE BronzeStreams ---------------------------
(***************************************************************************)
(* The bronze tables of pl_bronze.py and the landing files each one reads. *)
(* A table without a landing_path loads `{name}/*/*/*`, which matches the  *)
(* files of the folder and of its sub folders, and is guarded by a filter  *)
(* on the depth of the path; a table with a landing_path loads one sub     *)
(* folder of one or more root folders.                                     *)
(***************************************************************************)
EXTENDS LandingFiles

Stream(name, folders, sub) == [name |-> name, folders |-> folders, sub |-> sub]

\* create_bronze_stream(name) and create_bronze_stream(name, landing_path = ..).
RootStream(name) == Stream(name, {name}, Here)
ChildStream(name, folder, sub) == Stream(name, {folder}, sub)
PowerPlat(sub) == ChildStream("powerplat_" \o sub, "powerplat_environments", sub)

IsRootStream(s) == s.sub = Here

\* The load path: `{name}/*/*/*` lists sub folders too.
Loaded(s, f) == f.folder \in s.folders /\ (IsRootStream(s) \/ f.sub = s.sub)

\* Mutant: the filter on the depth is missing.
NoDepthGuard(s, f) == TRUE

\* The depth filter of root entities: nothing between the date and the file.
DepthGuard(s, f) == IsRootStream(s) => f.sub = Here

\* The files the table ingests.
Reads(s, f) == Loaded(s, f) /\ DepthGuard(s, f)

-----------------------------------------------------------------------------
(* The tables, in the order of the notebook *)

EntraRootStreams ==
    {RootStream(n) : n \in {"entra_users", "entra_groups", "entra_contacts",
                            "entra_devices", "entra_applications",
                            "entra_service_principals"}}

GrantDeviceTeamStreams ==
    {RootStream(n) : n \in {"entra_delegated_permission_grants",
                            "intune_managed_devices", "mde_devices", "teams_teams"}}

ExchangeRootStreams ==
    {RootStream(n) : n \in {"exo_mailboxes", "exo_contacts", "exo_mail_users",
                            "exo_distribution_groups", "exo_unified_groups"}}
      \cup {ChildStream("exo_distribution_group_details", "exo_distribution_groups", "details")}

DependentStreams ==
    {ChildStream("exo_unified_group_details", "exo_unified_groups", "details"),
     RootStream("spo_sites"),
     ChildStream("entra_group_members", "entra_groups", "members"),
     ChildStream("entra_group_owners", "entra_groups", "owners"),
     ChildStream("teams_team_details", "teams_teams", "details")}

OwnerAndMemberStreams ==
    {ChildStream("spo_site_details", "spo_sites", "spo_site_details"),
     ChildStream("entra_sp_role_assignees", "entra_service_principals", "role_assignees"),
     ChildStream("entra_sp_owners", "entra_service_principals", "owners"),
     ChildStream("entra_app_owners", "entra_applications", "owners"),
     ChildStream("teams_channels", "teams_teams", "channels"),
     Stream("exo_group_members", {"exo_distribution_groups", "exo_unified_groups"}, "members")}

ServicePrincipalStreams ==
    {ChildStream("entra_sp_" \o sub, "entra_service_principals", sub) :
        sub \in {"app_role_assignments", "claims_mapping_policies", "perm_classifications"}}
      \cup {RootStream("entra_sign_in_logs"),
            ChildStream("entra_app_proxy_config", "entra_applications", "proxy_config")}

TeamsAndMailboxStreams ==
    {ChildStream("entra_sp_provisioning_jobs", "entra_service_principals", "provisioning_jobs"),
     ChildStream("exo_mailbox_statistics", "exo_mailboxes", "statistics"),
     ChildStream("exo_mailbox_permissions", "exo_mailboxes", "permissions")}
      \cup {ChildStream("teams_" \o sub, "teams_teams", sub) :
               sub \in {"channel_members", "installed_apps", "channel_tabs"}}

SharePointStreams ==
    {ChildStream(n, "spo_sites", n) :
        n \in {"spo_site_groups", "spo_site_users", "spo_webs",
               "spo_web_role_definitions", "spo_web_role_assignments", "spo_web_lists"}}

ItemAndAuditStreams ==
    {ChildStream("spo_web_item_permissions", "spo_sites", "spo_web_item_permissions")}
      \cup {RootStream(n) : n \in {"audit_entra", "audit_exchange", "audit_general",
                                   "audit_sharepoint"}}

PowerBiStreams ==
    {RootStream("powerbi_" \o n) : n \in {"apps", "capacities", "deployment_pipelines",
                                          "gateway_clusters", "gateway_cluster_permissions"}}
      \cup {ChildStream("powerbi_workspaces_root", "powerbi_workspaces_root", "root")}

FabricStreams ==
    {RootStream("powerbi_fabric_" \o n) :
        n \in {"lakehouses", "warehouses", "kql_databases", "notebooks"}}

PowerAppStreams ==
    {PowerPlat(n) : n \in {"apps", "app_role_assignments", "flows",
                           "flow_role_assignments", "connections"}}

ConnectionAndSolutionStreams ==
    {PowerPlat(n) : n \in {"connection_role_assignments", "custom_connectors",
                           "dataverse_onboardings", "solutions", "solution_components"}}

VariableAndWorkflowStreams ==
    {PowerPlat(n) : n \in {"connection_references", "env_variable_definitions",
                           "env_variable_values", "tables", "workflows"}}

PluginAndAppStreams ==
    {PowerPlat(n) : n \in {"plugin_assemblies", "plugin_steps", "web_resources",
                           "app_modules", "bots"}}

BotAndPageStreams ==
    {PowerPlat(n) : n \in {"bot_components", "ai_models", "powerpages_websites",
                           "powerpages_components", "systemusers"}}

PublisherAndBodyStreams ==
    {PowerPlat(n) : n \in {"publishers", "mailboxes", "flow_metadata",
                           "workflow_definitions"}}

BodyStreams ==
    {PowerPlat(n) : n \in {"app_module_xml", "bot_configurations", "bot_component_data",
                           "web_resource_contents", "powerpages_component_contents"}}

Streams ==
    UNION {EntraRootStreams, GrantDeviceTeamStreams, ExchangeRootStreams, DependentStreams,
           OwnerAndMemberStreams, ServicePrincipalStreams, TeamsAndMailboxStreams,
           SharePointStreams, ItemAndAuditStreams, PowerBiStreams, FabricStreams,
           PowerAppStreams, ConnectionAndSolutionStreams, VariableAndWorkflowStreams,
           PluginAndAppStreams, BotAndPageStreams, PublisherAndBodyStreams, BodyStreams}

StreamOf == [name \in {s.name : s \in Streams} |-> CHOOSE s \in Streams : s.name = name]

\* The streams that read the files of an entity.
Readers == [f \in LandingEntities |-> {s \in Streams : Reads(s, f)}]
=============================================================================
