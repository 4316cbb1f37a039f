----------------------------- MODULE MCModuleRun ----------------------------
(* Modules of two containers, and requests for part of their entities. *)
EXTENDS ModuleRun

\* exo-ingest, without the unified groups: their root is a prerequisite.
ExoTask == << <<"dg_root", "ug_root", "dg_members", "ug_members">>,
              <<"mailboxes_root", "mailbox_perms">> >>

\* graph-ingest: a chain of three stages.
TeamsTask == << <<"teams_root", "team_channels", "channel_members", "channel_tabs">> >>

TwoTasks == {ExoTask, TeamsTask}

PoolStages == {"dg_members", "ug_members", "mailbox_perms",
               "team_channels", "channel_members", "channel_tabs"}
InputFrom == [s \in Stages |->
    CASE s = "dg_members" -> "dg_root"
      [] s = "ug_members" -> "ug_root"
      [] s = "mailbox_perms" -> "mailboxes_root"
      [] s = "team_channels" -> "teams_root"
      [] s \in {"channel_members", "channel_tabs"} -> "team_channels"
      [] OTHER -> NoStage]
RequestedEntity == [s \in Stages |->
    CASE s = "dg_root" -> "exo_distribution_groups"
      [] s \in {"ug_root", "teams_root"} -> None
      [] s \in {"dg_members", "ug_members"} -> "exo_group_members"
      [] s = "mailboxes_root" -> "exo_mailboxes"
      [] s = "mailbox_perms" -> "exo_mailbox_permissions"
      [] s = "team_channels" -> "teams_channels"
      [] s = "channel_members" -> "teams_channel_members"
      [] s = "channel_tabs" -> "teams_channel_tabs"]
=============================================================================
