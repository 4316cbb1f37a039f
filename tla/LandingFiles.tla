---------------------------- MODULE LandingFiles ----------------------------
(***************************************************************************)
(* Where the ingest jobs land the files of each entity.  A stage of a      *)
(* fan-out module writes to the folder of the entity that owns its root    *)
(* stage; the root stage's own file lies directly in the folder of the     *)
(* date, and the file of every other stage in the sub folder its entity    *)
(* declares (WritesTo).  Tenant, date and file name are left out: every    *)
(* path has them and no path differs in them.                              *)
(***************************************************************************)
EXTENDS Sequences, FiniteSets

\* The file of a root stage: `{root}/{tenant}/{date}/{file}`.
Here == "."

\* A file of `entity`, in the folder of its root entity and a sub folder.
Lands(entity, folder, sub) == [entity |-> entity, folder |-> folder, sub |-> sub]

\* An inline root stage, and the pool stages below it.
Root(entity) == Lands(entity, entity, Here)
Family(root, children) ==
    {Root(root)} \cup {Lands(children[sub], root, sub) : sub \in DOMAIN children}

-----------------------------------------------------------------------------
(* Microsoft Graph *)

EntraApplicationFiles ==
    Family("entra_applications",
           [owners |-> "entra_app_owners", proxy_config |-> "entra_app_proxy_config"])

EntraGroupFiles ==
    Family("entra_groups",
           [members |-> "entra_group_members", owners |-> "entra_group_owners"])

EntraServicePrincipalFiles ==
    Family("entra_service_principals",
           [owners |-> "entra_sp_owners",
            role_assignees |-> "entra_sp_role_assignees",
            claims_mapping_policies |-> "entra_sp_claims_mapping_policies",
            app_role_assignments |-> "entra_sp_app_role_assignments",
            perm_classifications |-> "entra_sp_perm_classifications",
            provisioning_jobs |-> "entra_sp_provisioning_jobs"])

TeamsFiles ==
    Family("teams_teams",
           [details |-> "teams_team_details",
            installed_apps |-> "teams_installed_apps",
            channels |-> "teams_channels",
            channel_members |-> "teams_channel_members",
            channel_tabs |-> "teams_channel_tabs"])

\* Modules of one inline stage.
SingleStageFiles ==
    {Root(e) : e \in {"entra_users", "entra_contacts", "entra_devices",
                      "entra_delegated_permission_grants",
                      "intune_managed_devices", "mde_devices",
                      "exo_contacts", "exo_mail_users",
                      "audit_entra", "audit_exchange", "audit_general",
                      "audit_sharepoint", "entra_sign_in_logs"}}

-----------------------------------------------------------------------------
(* Exchange and SharePoint *)

\* exo_group_members is fed by two stages, one below each root.
ExoGroupFiles ==
    Family("exo_distribution_groups",
           [details |-> "exo_distribution_group_details", members |-> "exo_group_members"])
      \cup Family("exo_unified_groups",
                  [details |-> "exo_unified_group_details", members |-> "exo_group_members"])

ExoMailboxFiles ==
    Family("exo_mailboxes",
           [statistics |-> "exo_mailbox_statistics", permissions |-> "exo_mailbox_permissions"])

\* The children of spo_sites write to a sub folder of their own name.
SpoFiles ==
    {Root("spo_sites")} \cup
    {Lands(e, "spo_sites", e) :
        e \in {"spo_site_details", "spo_site_users", "spo_site_groups", "spo_webs",
               "spo_web_role_definitions", "spo_web_role_assignments",
               "spo_web_lists", "spo_web_item_permissions"}}

-----------------------------------------------------------------------------
(* Power Platform and Power BI *)

PowerPlatChildren ==
    {"apps", "app_role_assignments", "flows", "flow_role_assignments", "connections",
     "connection_role_assignments", "custom_connectors", "dataverse_onboardings",
     "solutions", "solution_components", "connection_references",
     "env_variable_definitions", "env_variable_values", "tables", "workflows",
     "plugin_assemblies", "plugin_steps", "web_resources", "app_modules", "bots",
     "bot_components", "ai_models", "powerpages_websites", "powerpages_components",
     "flow_metadata", "workflow_definitions", "app_module_xml", "bot_configurations",
     "bot_component_data", "web_resource_contents", "powerpages_component_contents",
     "systemusers", "publishers", "mailboxes"}

PowerPlatFiles ==
    {Root("powerplat_environments")} \cup
    {Lands("powerplat_" \o sub, "powerplat_environments", sub) : sub \in PowerPlatChildren}

PowerBiTenantFiles ==
    {Root(e) : e \in {"powerbi_capacities", "powerbi_apps", "powerbi_deployment_pipelines",
                      "powerbi_fabric_lakehouses", "powerbi_fabric_warehouses",
                      "powerbi_fabric_kql_databases", "powerbi_fabric_notebooks"}}

\* Pool stages that declare WritesTo = 'root' land in a sub folder named root.
PowerBiGatewayFiles ==
    {Root("powerbi_gateway_clusters"), Root("powerbi_gateway_cluster_permissions"),
     Lands("powerbi_gateway_cluster_data_sources", "powerbi_gateway_clusters", "root")}

PowerBiWorkspaceFiles ==
    {Root("powerbi_workspaces_root")} \cup
    {Lands(e, "powerbi_workspaces_root", "root") :
        e \in {"powerbi_workspaces", "powerbi_datasets", "powerbi_reports",
               "powerbi_dashboards", "powerbi_dataflows",
               "powerbi_datasource_instances", "powerbi_dataset_datasources",
               "powerbi_dataflow_datasources", "powerbi_workspace_users",
               "powerbi_dataset_users", "powerbi_report_users",
               "powerbi_dashboard_users", "powerbi_dataset_schemas",
               "powerbi_dataset_expressions", "powerbi_dataset_refresh_schedules"}}

LandingEntities ==
    UNION {EntraApplicationFiles, EntraGroupFiles, EntraServicePrincipalFiles, TeamsFiles,
           SingleStageFiles, ExoGroupFiles, ExoMailboxFiles, SpoFiles, PowerPlatFiles,
           PowerBiTenantFiles, PowerBiGatewayFiles, PowerBiWorkspaceFiles}
=============================================================================
