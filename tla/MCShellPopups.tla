--------------------------- MODULE MCShellPopups ---------------------------
(* The shell's popups, a few surfaces at a time.                           *)
EXTENDS ShellPopups

Groups == { { "launcher", "calendar", "shared" },
            { "launcher", "calendar", "workspace" },
            { "workspace", "shared" },
            { "shared", "wifi" },
            { "launcher", "menu" },
            { "notification", "thumbnail" },
            { "consent", "region", "menu" } }
Launcher == { {"launcher"} }
=============================================================================
