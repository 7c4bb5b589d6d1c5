---------------------------- MODULE MCRequestAuth ----------------------------
EXTENDS RequestAuth

Deployment(tokens, legacy, until) ==
    [tokens |-> tokens, browser |-> IF "oidc" \in tokens THEN BrowserParts ELSE {},
     mode |-> "protected", legacy |-> legacy, until |-> until]

WithBrowser(parts, c) == [c EXCEPT !.browser = parts]

(* Nothing, one mechanism, a migration with and without OIDC, all, and     *)
(* browser sessions that OIDC left behind, with and without the origin.    *)
MCConfigs ==
    {Deployment({}, "disabled", 0),
     [Deployment({}, "migration", 8) EXCEPT !.mode = "development_open"],
     Deployment({"hmac"}, "disabled", 0),
     Deployment({"readonly", "agent"}, "migration", 1),
     Deployment({"operator", "agent", "hmac"}, "migration", 1),
     Deployment({"operator", "agent", "readonly", "external"}, "migration", 2),
     Deployment({"external", "oidc", "agent", "hmac"}, "migration", 1),
     Deployment({"operator", "oidc"}, "migration", 4),
     Deployment(Mechanisms, "disabled", 0),
     WithBrowser(BrowserParts, Deployment({}, "disabled", 0)),
     WithBrowser({"key"}, Deployment({"operator", "agent"}, "migration", 4)),
     WithBrowser(BrowserParts, Deployment({"readonly", "hmac"}, "migration", 4))}

Credentials ==
    [cookie : {"none"}, csrf : {FALSE}, external : {"none", "operator", "readonly", "other"},
     token : {"none", "operator", "agent", "readonly", "device", "enrollment"}]
    \cup
    [cookie : {"viewer", "admin"}, csrf : BOOLEAN, external : {"none", "operator"},
     token : {"none", "operator", "device"}]

Targets(route) ==
    CASE Policy(route) = "agent" -> {"own", "other", "legacy"}
      [] Policy(route) = "installer_artifact.download" -> {"go_agent", "legacy_reporter"}
      [] OTHER -> {"none"}

MCRequests ==
    UNION {[cookie : {c.cookie}, csrf : {c.csrf}, external : {c.external}, token : {c.token},
            route : {r}, target : Targets(r)] : c \in Credentials, r \in Routes}
=============================================================================
