----------------------------- MODULE MCRuntime -----------------------------
(* A worker process whose environment differs from a good one in one place, *)
(* or in two.                                                               *)
EXTENDS Runtime

Secret == [SESSION_SIGNING_KEY |-> 1, ADMIN_PASSWORD |-> 2, CREDENTIAL_ENCRYPTION_KEY |-> 3]
Good == [roles |-> {"worker"}, backend |-> "database", extra |-> {}, wrong |-> {}, num |-> <<>>, secret |-> Secret,
         set |-> {"DATABASE_URL", "CREDENTIAL_ENCRYPTION_KEY", "SERVER_ROOT_URL"}, on |-> {"ASSET_USE_ABSOLUTE_URLS"}]

Texts == {"number", "LOG_LEVEL", "DATABASE_URL", "WEBDRIVER_URL", "APP_TIMEZONE", "BROWSER_ENGINE", "BROWSER_USER_AGENT",
          "BROWSER_LOCALE", "BROWSER_EXTRA_ARGS", "WEREAD_ACCOUNT_ID", "WEREAD_ARTICLE_LIST_URL", "HTTP_BIND",
          "ADMIN_ENABLED", "ASSET_USE_ABSOLUTE_URLS", "SERVER_ROOT_URL", "ASSET_CACHE_MAX_AGE_DAYS"}
Needs ==
    [local |-> {"ASSET_LOCAL_ROOT"},
     s3 |-> {"ASSET_S3_BUCKET", "ASSET_S3_REGION", "ASSET_S3_ACCESS_KEY_ID", "ASSET_S3_SECRET_ACCESS_KEY"},
     oss |-> {"ASSET_OSS_BUCKET", "ASSET_OSS_VERSIONING", "ASSET_OSS_ENDPOINT", "ASSET_OSS_ACCESS_KEY_ID", "ASSET_OSS_ACCESS_KEY_SECRET"},
     gcs |-> {"ASSET_GCS_BUCKET", "ASSET_GCS_CREDENTIAL"},
     azblob |-> {"ASSET_AZURE_CONTAINER", "ASSET_AZURE_ENDPOINT", "ASSET_AZURE_ACCOUNT_NAME", "ASSET_AZURE_ACCOUNT_KEY"},
     ftp |-> {"ASSET_FTP_ENDPOINT", "ASSET_FTP_USER", "ASSET_FTP_PASSWORD"},
     sftp |-> {"ASSET_SFTP_ENDPOINT", "ASSET_SFTP_USER", "ASSET_SFTP_KEY"},
     webdav |-> {"ASSET_WEBDAV_ENDPOINT", "ASSET_WEBDAV_USER", "ASSET_WEBDAV_PASSWORD"}]
Skips == {"ASSET_OSS_SKIP_SIGNATURE", "ASSET_GCS_SKIP_SIGNATURE", "ASSET_AZURE_SKIP_SIGNATURE"}
Admin == {"ADMIN_USERNAME", "ADMIN_PASSWORD", "SESSION_SIGNING_KEY"}
Quiet == {"QUIET_HOURS_START", "QUIET_HOURS_END"}
Longest == MaxChrono + 1

\* A storage backend with all it needs, or one thing less, or one thing wrong, signed or not.
Backends ==
    LET with(b, set) == [Good EXCEPT !.backend = b, !.set = @ \cup set]
    IN UNION {{with(b, Needs[b] \ {v}) : v \in Needs[b] \cup {"-"}} : b \in DOMAIN Needs}
       \cup UNION {{[with(b, Needs[b]) EXCEPT !.wrong = {v}] : v \in Needs[b]} : b \in DOMAIN Needs}
       \cup UNION {{[with(b, Needs[b] \ {v}) EXCEPT !.on = @ \cup {s}] : v \in Needs[b], s \in Skips} : b \in {"oss", "gcs", "azblob"}}
       \cup {[Good EXCEPT !.backend = "disabled", !.roles = {"scheduler"}], [Good EXCEPT !.backend = "tape"], [Good EXCEPT !.backend = "postgres"]}

\* Zero, one and the largest value the code converts, for every number; pairs
\* of the numbers that are compared.
Numbers == {[Good EXCEPT !.num = [x \in {v} |-> n]] : v \in DOMAIN Default, n \in {0, 1, Longest}}
Pairs == {[Good EXCEPT !.num = [x \in {p[1], p[2]} |-> IF x = p[1] THEN n ELSE n - d]] :
            p \in {<<"JOB_LEASE_SECONDS", "JOB_HEARTBEAT_SECONDS">>, <<"ACCOUNT_LEASE_SECONDS", "ACCOUNT_HEARTBEAT_SECONDS">>,
                   <<"FEED_BUILD_LEASE_SECONDS", "FEED_BUILD_HEARTBEAT_SECONDS">>,
                   <<"JOB_LEASE_SECONDS", "SCROLL_MAX_OPERATION_SECONDS">>,
                   <<"DATABASE_POOL_MAX_CONNECTIONS", "DATABASE_POOL_MIN_CONNECTIONS">>},
            n \in {90, Longest + 1}, d \in {0, 1}}

Roled == {[Good EXCEPT !.roles = r, !.backend = "disabled"] :
            r \in {{}, {"api"}, {"scheduler"}, {"api", "scheduler"}, {"all", "api"}, {"web"}}}
Everything == [Good EXCEPT !.roles = {"all"}, !.backend = "disabled"]
Administered == {[Good EXCEPT !.roles = {"api"}, !.backend = "disabled", !.on = @ \cup {"ADMIN_ENABLED"}, !.set = @ \cup (Admin \ {v}),
                              !.secret.SESSION_SIGNING_KEY = k] : v \in Admin \cup {"-"}, k \in 1 .. 3}
Rootless == {[r EXCEPT !.set = @ \ {"SERVER_ROOT_URL"}, !.on = o] : r \in Roled \cup {Everything}, o \in {{}, Good.on}}
            \cup {[Good EXCEPT !.set = @ \ {"SERVER_ROOT_URL"}]}
Cooldowns == {[r EXCEPT !.num = [x \in {"SOURCE_FAILURE_COOLDOWN_SECONDS"} |-> 0]] : r \in Roled \cup {Everything}}

MCEnvironments ==
    {Good} \cup Backends \cup Numbers \cup Pairs \cup Roled \cup Administered \cup Rootless \cup Cooldowns
    \cup {[Good EXCEPT !.wrong = {t}] : t \in Texts} \cup {[Good EXCEPT !.extra = {t}] : t \in {"legacy", "unknown"}}
    \cup {[Good EXCEPT !.set = @ \ {v}] : v \in Good.set}
    \cup {[Good EXCEPT !.set = @ \cup q, !.wrong = w] : q \in SUBSET Quiet, w \in {{}, {"QUIET_HOURS"}, {"QUIET_HOURS_END"}}}
=============================================================================
