---------------------------- MODULE SilverTables ----------------------------
(***************************************************************************)
(* The streaming tables of pl_silver.py, one definition per table: the     *)
(* bronze table its staging view reads, the columns its key joins after    *)
(* the tenant (source_key), the columns whose NULL makes an expect_or_drop *)
(* or a filter drop the record, and what apply_changes sequences by.       *)
(* Only expectations that can fail count: concat_ws skips NULLs and never  *)
(* returns NULL, so "x_id IS NOT NULL" over a joined key drops nothing.    *)
(* The derived columns are abstracted away.                                *)
(***************************************************************************)
EXTENDS Sequences

\* Upserted in the order of ingestion: sequence_by _dlt_ingested_at.
Upsert(from, key, needs) ==
    [from |-> from, key |-> key, needs |-> needs, sequence |-> "ingested"]

\* Upserted by the time the source gives, or the ingest time without one:
\* coalesce(to_timestamp(modifiedon), _dlt_ingested_at).
Stamped(from, key) ==
    [from |-> from, key |-> key, needs |-> {}, sequence |-> "modified"]

\* Appended and never deduplicated.
Log(from) ==
    [from |-> from, key |-> <<"id">>, needs |-> {"id"}, sequence |-> "none"]

IsLog(t) == t.sequence = "none"

-----------------------------------------------------------------------------
(* Entra ID and Exchange directory *)

users == Upsert("entra_users", <<"id">>, {"id"})
contacts == Upsert("entra_contacts", <<"id">>, {"id"})
groups == Upsert("entra_groups", <<"id">>, {"id"})
group_memberships == Upsert("entra_group_members", <<"groupId", "id">>, {"groupId", "id"})
group_owners == Upsert("entra_group_owners", <<"groupId", "id">>, {"groupId", "id"})
mailboxes == Upsert("exo_mailboxes", <<"Guid">>, {"Guid"})
exo_contacts == Upsert("exo_contacts", <<"Guid">>, {"Guid"})
mail_users == Upsert("exo_mail_users", <<"Guid">>, {"Guid"})
exo_unified_groups ==
    Upsert("exo_unified_groups", <<"ExternalDirectoryObjectId">>,
           {"ExternalDirectoryObjectId"})
exo_distribution_groups ==
    Upsert("exo_distribution_groups", <<"ExternalDirectoryObjectId">>,
           {"ExternalDirectoryObjectId"})
exo_group_members ==
    Upsert("exo_group_members", <<"groupObjectId", "memberObjectId">>,
           {"groupObjectId", "memberObjectId"})

-----------------------------------------------------------------------------
(* SharePoint: the keys are hashes of the lower-case columns *)

spo_sites == Upsert("spo_sites", <<"webUrl">>, {"webUrl", "id"})
spo_site_users == Upsert("spo_site_users", <<"SiteUrl", "Id">>, {"SiteUrl"})
spo_webs == Upsert("spo_webs", <<"WebUrl">>, {"SiteUrl", "WebUrl"})
spo_web_role_definitions ==
    Upsert("spo_web_role_definitions", <<"WebUrl", "Id">>, {"SiteUrl", "WebUrl"})
spo_web_lists == Upsert("spo_web_lists", <<"WebUrl", "Id">>, {"SiteUrl", "WebUrl"})
spo_site_group_users ==
    Upsert("spo_site_groups", <<"SiteUrl", "GroupId", "UserId">>,
           {"SiteUrl", "GroupId", "UserId"})
spo_web_role_assignments ==
    Upsert("spo_web_role_assignments", <<"WebUrl", "PrincipalId", "RoleId">>,
           {"WebUrl", "PrincipalId", "RoleId"})
spo_web_item_principals ==
    Upsert("spo_web_item_permissions", <<"ItemId", "PrincipalId", "Role">>,
           {"SiteUrl", "WebUrl", "ListId", "ItemId", "PrincipalId", "Role"})
spo_web_item_links ==
    Upsert("spo_web_item_permissions", <<"ItemId", "ShareId", "LinkKind">>,
           {"SiteUrl", "WebUrl", "ListId", "ItemId", "ShareId", "LinkKind"})

-----------------------------------------------------------------------------
(* Devices, applications and Teams *)

devices == Upsert("entra_devices", <<"id">>, {"id"})
intune_devices == Upsert("intune_managed_devices", <<"id">>, {})
mde_devices == Upsert("mde_devices", <<"id">>, {})
applications == Upsert("entra_applications", <<"id">>, {})
app_owners == Upsert("entra_app_owners", <<"applicationId", "id">>, {"applicationId", "id"})
service_principals == Upsert("entra_service_principals", <<"id">>, {})
sp_owners ==
    Upsert("entra_sp_owners", <<"servicePrincipalId", "id">>, {"servicePrincipalId", "id"})
delegated_permission_grants == Upsert("entra_delegated_permission_grants", <<"id">>, {})
teams == Upsert("teams_teams", <<"id">>, {})
teams_team_details == Upsert("teams_team_details", <<"id">>, {"id"})
team_channels == Upsert("teams_channels", <<"teamId", "id">>, {"teamId"})
team_channel_members == Upsert("teams_channel_members", <<"channelId", "id">>, {})

-----------------------------------------------------------------------------
(* Append-only logs *)

sign_in_logs == Log("entra_sign_in_logs")
audit_entra == Log("audit_entra")
audit_exchange == Log("audit_exchange")
audit_general == Log("audit_general")
audit_sharepoint == Log("audit_sharepoint")

-----------------------------------------------------------------------------
(* Power BI and Fabric *)

powerbi_capacities == Upsert("powerbi_capacities", <<"id">>, {})
powerbi_apps == Upsert("powerbi_apps", <<"id">>, {})
powerbi_deployment_pipelines == Upsert("powerbi_deployment_pipelines", <<"id">>, {})
powerbi_gateway_clusters == Upsert("powerbi_gateway_clusters", <<"id">>, {})
powerbi_gateway_cluster_permissions ==
    Upsert("powerbi_gateway_cluster_permissions", <<"clusterId", "id">>, {"clusterId"})
powerbi_workspaces == Upsert("powerbi_workspaces_root", <<"id">>, {})
fabric_lakehouses == Upsert("powerbi_fabric_lakehouses", <<"id">>, {})
fabric_warehouses == Upsert("powerbi_fabric_warehouses", <<"id">>, {})
fabric_kql_databases == Upsert("powerbi_fabric_kql_databases", <<"id">>, {})
fabric_notebooks == Upsert("powerbi_fabric_notebooks", <<"id">>, {})

-----------------------------------------------------------------------------
(* Power Platform *)

powerplat_apps == Stamped("powerplat_apps", <<"name">>)
powerplat_app_role_assignments ==
    Upsert("powerplat_app_role_assignments", <<"envName", "appId", "name">>,
           {"envName", "appId", "name"})
powerplat_flows == Stamped("powerplat_flows", <<"name">>)
powerplat_flow_role_assignments ==
    Upsert("powerplat_flow_role_assignments", <<"envName", "flowId", "name">>,
           {"envName", "flowId", "name"})
powerplat_connections == Stamped("powerplat_connections", <<"name">>)
powerplat_connection_role_assignments ==
    Upsert("powerplat_connection_role_assignments", <<"envName", "connectionId", "name">>,
           {"envName", "connectionId", "name"})
powerplat_custom_connectors == Stamped("powerplat_custom_connectors", <<"name">>)
powerplat_dataverse_onboardings == Stamped("powerplat_dataverse_onboardings", <<"env_id">>)

-----------------------------------------------------------------------------
(* Dataverse *)

powerplat_solutions == Stamped("powerplat_solutions", <<"solutionid">>)
powerplat_solution_components ==
    Stamped("powerplat_solution_components", <<"solutioncomponentid">>)
powerplat_connection_references ==
    Stamped("powerplat_connection_references", <<"connectionreferenceid">>)
powerplat_env_variable_definitions ==
    Stamped("powerplat_env_variable_definitions", <<"environmentvariabledefinitionid">>)
powerplat_env_variable_values ==
    Stamped("powerplat_env_variable_values", <<"environmentvariablevalueid">>)
powerplat_tables == Upsert("powerplat_tables", <<"MetadataId">>, {})
powerplat_workflows == Stamped("powerplat_workflows", <<"workflowid">>)
powerplat_plugin_assemblies == Stamped("powerplat_plugin_assemblies", <<"pluginassemblyid">>)
powerplat_plugin_steps == Stamped("powerplat_plugin_steps", <<"sdkmessageprocessingstepid">>)
powerplat_web_resources == Stamped("powerplat_web_resources", <<"webresourceid">>)
powerplat_app_modules == Stamped("powerplat_app_modules", <<"appmoduleid">>)
powerplat_bots == Stamped("powerplat_bots", <<"botid">>)
powerplat_bot_components == Stamped("powerplat_bot_components", <<"botcomponentid">>)
powerplat_ai_models == Stamped("powerplat_ai_models", <<"msdyn_aimodelid">>)
powerplat_powerpages_websites == Stamped("powerplat_powerpages_websites", <<"mspp_websiteid">>)
powerplat_powerpages_components ==
    Stamped("powerplat_powerpages_components", <<"powerpagecomponentid">>)
powerplat_systemusers == Stamped("powerplat_systemusers", <<"systemuserid">>)
powerplat_publishers == Stamped("powerplat_publishers", <<"publisherid">>)
powerplat_mailboxes == Stamped("powerplat_mailboxes", <<"mailboxid">>)

-----------------------------------------------------------------------------
(* Dependency bodies *)

powerplat_flow_metadata == Upsert("powerplat_flow_metadata", <<"name">>, {})
powerplat_workflow_definitions == Upsert("powerplat_workflow_definitions", <<"workflowid">>, {})
powerplat_app_module_xml == Upsert("powerplat_app_module_xml", <<"appmoduleid">>, {})
powerplat_bot_configurations == Upsert("powerplat_bot_configurations", <<"botid">>, {})
powerplat_bot_component_data == Upsert("powerplat_bot_component_data", <<"botcomponentid">>, {})
powerplat_web_resource_contents ==
    Upsert("powerplat_web_resource_contents", <<"webresourceid">>, {})
powerplat_powerpages_component_contents ==
    Upsert("powerplat_powerpages_component_contents", <<"powerpagecomponentid">>, {})

-----------------------------------------------------------------------------
SilverTables ==
    {users, contacts, groups, group_memberships, group_owners, mailboxes,
     exo_contacts, mail_users, exo_unified_groups, exo_distribution_groups,
     exo_group_members, spo_sites, spo_site_users, spo_webs,
     spo_web_role_definitions, spo_web_lists, spo_site_group_users,
     spo_web_role_assignments, spo_web_item_principals, spo_web_item_links, devices,
     intune_devices, mde_devices, applications, app_owners, service_principals,
     sp_owners, delegated_permission_grants, teams, teams_team_details,
     team_channels, team_channel_members, sign_in_logs, audit_entra, audit_exchange,
     audit_general, audit_sharepoint, powerbi_capacities, powerbi_apps,
     powerbi_deployment_pipelines, powerbi_gateway_clusters,
     powerbi_gateway_cluster_permissions, powerbi_workspaces, fabric_lakehouses,
     fabric_warehouses, fabric_kql_databases, fabric_notebooks, powerplat_apps,
     powerplat_app_role_assignments, powerplat_flows,
     powerplat_flow_role_assignments, powerplat_connections,
     powerplat_connection_role_assignments, powerplat_custom_connectors,
     powerplat_dataverse_onboardings, powerplat_solutions,
     powerplat_solution_components, powerplat_connection_references,
     powerplat_env_variable_definitions, powerplat_env_variable_values,
     powerplat_tables, powerplat_workflows, powerplat_plugin_assemblies,
     powerplat_plugin_steps, powerplat_web_resources, powerplat_app_modules,
     powerplat_bots, powerplat_bot_components, powerplat_ai_models,
     powerplat_powerpages_websites, powerplat_powerpages_components,
     powerplat_systemusers, powerplat_publishers, powerplat_mailboxes,
     powerplat_flow_metadata, powerplat_workflow_definitions,
     powerplat_app_module_xml, powerplat_bot_configurations,
     powerplat_bot_component_data, powerplat_web_resource_contents,
     powerplat_powerpages_component_contents}
=============================================================================
