--------------------------- MODULE Configuration ---------------------------
(***************************************************************************)
(* Reading the environment (config.rs) and turning an accepted             *)
(* configuration into components, workers and handlers (runtime.rs and the *)
(* builders of runtime_supervisor.rs), as operators.                       *)
(*                                                                         *)
(* An environment is the record of what the code asks about its text:      *)
(*   set     the variables that are set; the ones that must not be blank   *)
(*           only when they are not                                        *)
(*   wrong   the variables whose text fails the parser of its own          *)
(*   on      the Boolean variables whose value is true                     *)
(*   num     the numbers that differ from the default                      *)
(*   roles   the entries of APP_ROLES, backend the one of the archive      *)
(*   secret  the values of the secrets that are compared                   *)
(*   extra   other variables: "legacy" or "unknown" ones                   *)
(***************************************************************************)
EXTENDS Integers, Sequences, SequencesExt

CONSTANT MaxChrono  \* the longest duration chrono represents, in seconds

ASSUME ChronoAssumption == MaxChrono \in Nat /\ MaxChrono > 604800

ArchiveBackends == {"database", "local", "s3", "oss", "gcs", "azure", "ftp", "sftp", "webdav"}
alias(backend) == IF backend = "postgres" THEN "database" ELSE IF backend = "azblob" THEN "azure" ELSE backend

Default ==
    [WORKER_CONCURRENCY |-> 1, DATABASE_POOL_MIN_CONNECTIONS |-> 1, DATABASE_POOL_MAX_CONNECTIONS |-> 10,
     BROWSER_VIEWPORT_WIDTH |-> 1280, BROWSER_VIEWPORT_HEIGHT |-> 2000, HTTP_PORT |-> 8080,
     JOB_POLL_SECONDS |-> 30, JOB_LEASE_SECONDS |-> 600, JOB_HEARTBEAT_SECONDS |-> 60,
     JOB_EXECUTION_TIMEOUT_SECONDS |-> 1800, JOB_MAX_ATTEMPTS |-> 3,
     ACCOUNT_LEASE_SECONDS |-> 600, ACCOUNT_HEARTBEAT_SECONDS |-> 60,
     SOURCE_FAILURE_COOLDOWN_SECONDS |-> 300, RSS_CACHE_TTL_SECONDS |-> 1800,
     RSS_STALE_WHILE_REVALIDATE_SECONDS |-> 60, RSS_CACHE_MISS_WAIT_MS |-> 5000,
     FEED_BUILD_LEASE_SECONDS |-> 600, FEED_BUILD_HEARTBEAT_SECONDS |-> 60,
     SCROLL_MAX_OPERATION_SECONDS |-> 30, SCROLL_MAX_STEPS |-> 4, SCROLL_MAX_PIXELS |-> 4000,
     ASSET_MAX_SIZE_MB |-> 10, ASSET_MAX_COUNT_PER_ARTICLE |-> 100,
     ASSET_MAX_FETCH_BYTES_PER_ARTICLE_MB |-> 100, ASSET_MAX_FETCH_TIME_PER_ARTICLE_SECONDS |-> 120,
     ASSET_FETCH_TIMEOUT_SECONDS |-> 30, ASSET_REPAIR_MAX_PENDING |-> 100,
     ASSET_REPAIR_PUBLIC_MAX_PENDING |-> 50, ASSET_REPAIR_REQUEUE_SECONDS |-> 60,
     ASSET_REPAIR_MAX_ATTEMPTS |-> 3, ASSET_REFRESH_MAX_ATTEMPTS |-> 3, ASSET_REFRESH_COOLDOWN_SECONDS |-> 3600,
     PACING_REQUEST_MIN_MS |-> 1000, PACING_REQUEST_MAX_MS |-> 4000,
     PACING_PAGE_NAVIGATION_MIN_MS |-> 1500, PACING_PAGE_NAVIGATION_MAX_MS |-> 7000,
     PACING_PAGE_ACTION_MIN_MS |-> 500, PACING_PAGE_ACTION_MAX_MS |-> 3000,
     PACING_SCROLL_SETTLE_MIN_MS |-> 500, PACING_SCROLL_SETTLE_MAX_MS |-> 3000]

Value(raw, v) == IF v \in DOMAIN raw.num THEN raw.num[v] ELSE Default[v]

-----------------------------------------------------------------------------
(* One check: the variable it names and whether it holds. *)

Check(v, ok) == [variable |-> v, ok |-> ok]
Fails(checks) == {k \in 1 .. Len(checks) : ~checks[k].ok}
\* The `?` operator: the variable of the first check that fails, or "ok".
FirstFailure(checks) ==
    IF Fails(checks) = {} THEN "ok"
    ELSE checks[CHOOSE k \in Fails(checks) : \A j \in Fails(checks) : k <= j].variable

required(raw, v) == Check(v, v \in raw.set)
well_formed(raw, v) == Check(v, v \notin raw.wrong)
parse_bool(raw, v) == well_formed(raw, v)
positive_u64(raw, v) == Check(v, Value(raw, v) > 0)
bounded_positive(raw, v, maximum) == Check(v, Value(raw, v) \in 1 .. maximum)
bounded_non_negative_u64(raw, v, maximum) == Check(v, Value(raw, v) <= maximum)
parse_optional_http_url(raw, v) == Check(v, v \in raw.set => v \notin raw.wrong)

-----------------------------------------------------------------------------
(* The asset archive. *)

\* Sizes and ages in other units must not overflow 64 bits: their text is wrong then.
decimal_megabytes(raw, v) == well_formed(raw, v)

\* Every limit of one fetch is positive, and a fetch fits the article's time.
AssetCachePolicy(raw) ==
    << positive_u64(raw, "ASSET_MAX_SIZE_MB"), positive_u64(raw, "ASSET_MAX_COUNT_PER_ARTICLE"),
       positive_u64(raw, "ASSET_MAX_FETCH_BYTES_PER_ARTICLE_MB"),
       positive_u64(raw, "ASSET_MAX_FETCH_TIME_PER_ARTICLE_SECONDS"), positive_u64(raw, "ASSET_FETCH_TIMEOUT_SECONDS"),
       bounded_non_negative_u64(raw, "ASSET_FETCH_TIMEOUT_SECONDS", Value(raw, "ASSET_MAX_FETCH_TIME_PER_ARTICLE_SECONDS")) >>
asset_cache_policy(raw) ==
    << decimal_megabytes(raw, "ASSET_CACHE_MAX_SIZE_MB"), well_formed(raw, "ASSET_CACHE_MAX_AGE_DAYS"),
       decimal_megabytes(raw, "ASSET_MAX_SIZE_MB"), decimal_megabytes(raw, "ASSET_MAX_FETCH_BYTES_PER_ARTICLE_MB") >>
    \o AssetCachePolicy(raw)

AssetRepairPolicy(raw) ==
    << positive_u64(raw, "ASSET_REPAIR_MAX_PENDING"), positive_u64(raw, "ASSET_REPAIR_MAX_ATTEMPTS"),
       bounded_non_negative_u64(raw, "ASSET_REPAIR_PUBLIC_MAX_PENDING", Value(raw, "ASSET_REPAIR_MAX_PENDING")),
       positive_u64(raw, "ASSET_REPAIR_REQUEUE_SECONDS") >>
asset_repair_policy(raw) ==
    << bounded_positive(raw, "ASSET_REPAIR_MAX_PENDING", 100000),
       bounded_non_negative_u64(raw, "ASSET_REPAIR_PUBLIC_MAX_PENDING", Value(raw, "ASSET_REPAIR_MAX_PENDING")),
       bounded_positive(raw, "ASSET_REPAIR_REQUEUE_SECONDS", 86400),
       bounded_positive(raw, "ASSET_REPAIR_MAX_ATTEMPTS", 100) >>
    \o AssetRepairPolicy(raw)

refresh_cooldown(raw) ==
    Check("ASSET_REFRESH_COOLDOWN_SECONDS", Value(raw, "ASSET_REFRESH_COOLDOWN_SECONDS") \in 60 .. 86400)
AssetRefreshPolicy(raw) == << bounded_positive(raw, "ASSET_REFRESH_MAX_ATTEMPTS", 10), refresh_cooldown(raw) >>
asset_refresh_policy(raw) == AssetRefreshPolicy(raw)

\* A service that may be used without signatures needs its keys otherwise.
Unless(skipped, checks) == IF skipped THEN <<>> ELSE checks
\* User and password are configured together; the missing one is named.
Paired(raw, user, password) ==
    Check(IF user \in raw.set THEN password ELSE user, user \in raw.set <=> password \in raw.set)
\* protocol_endpoint: given and, as a URL, of the required protocol.
protocol_endpoint(raw, v) == << required(raw, v), well_formed(raw, v) >>

LocalStorage(raw) == << required(raw, "ASSET_LOCAL_ROOT") >>

S3Storage(raw) ==
    << required(raw, "ASSET_S3_BUCKET"), required(raw, "ASSET_S3_REGION"),
       required(raw, "ASSET_S3_ACCESS_KEY_ID"), required(raw, "ASSET_S3_SECRET_ACCESS_KEY") >>

parse_oss_addressing_style(raw) == well_formed(raw, "ASSET_OSS_ADDRESSING_STYLE")
OssStorage(raw) ==
    << required(raw, "ASSET_OSS_BUCKET"), required(raw, "ASSET_OSS_VERSIONING"),
       well_formed(raw, "ASSET_OSS_VERSIONING"), required(raw, "ASSET_OSS_ENDPOINT"),
       parse_optional_http_url(raw, "ASSET_OSS_ENDPOINT"), parse_oss_addressing_style(raw),
       parse_bool(raw, "ASSET_OSS_SKIP_SIGNATURE") >>
    \o Unless("ASSET_OSS_SKIP_SIGNATURE" \in raw.on,
              << required(raw, "ASSET_OSS_ACCESS_KEY_ID"), required(raw, "ASSET_OSS_ACCESS_KEY_SECRET") >>)

\* Base64 of a JSON object with the fields of a service account.
validate_gcs_credential(raw) == well_formed(raw, "ASSET_GCS_CREDENTIAL")
GcsStorage(raw) ==
    LET skip == "ASSET_GCS_SKIP_SIGNATURE" \in raw.on
    IN << required(raw, "ASSET_GCS_BUCKET"), parse_bool(raw, "ASSET_GCS_SKIP_SIGNATURE") >>
       \o Unless(~skip, << required(raw, "ASSET_GCS_ENDPOINT") >>)
       \o Unless(skip, << required(raw, "ASSET_GCS_CREDENTIAL"), validate_gcs_credential(raw) >>)

validate_azure_account_key(raw) == well_formed(raw, "ASSET_AZURE_ACCOUNT_KEY")
AzureStorage(raw) ==
    << required(raw, "ASSET_AZURE_CONTAINER"), required(raw, "ASSET_AZURE_ENDPOINT"),
       parse_bool(raw, "ASSET_AZURE_SKIP_SIGNATURE") >>
    \o Unless("ASSET_AZURE_SKIP_SIGNATURE" \in raw.on,
              << required(raw, "ASSET_AZURE_ACCOUNT_NAME"), required(raw, "ASSET_AZURE_ACCOUNT_KEY"),
                 validate_azure_account_key(raw) >>)

FtpStorage(raw) == protocol_endpoint(raw, "ASSET_FTP_ENDPOINT") \o << Paired(raw, "ASSET_FTP_USER", "ASSET_FTP_PASSWORD") >>

\* The key is the absolute path of a mounted file.
SftpStorage(raw) ==
    protocol_endpoint(raw, "ASSET_SFTP_ENDPOINT")
    \o << required(raw, "ASSET_SFTP_USER"), required(raw, "ASSET_SFTP_KEY"), well_formed(raw, "ASSET_SFTP_KEY") >>

WebdavStorage(raw) ==
    protocol_endpoint(raw, "ASSET_WEBDAV_ENDPOINT") \o << Paired(raw, "ASSET_WEBDAV_USER", "ASSET_WEBDAV_PASSWORD") >>

Storage(raw) ==
    CASE alias(raw.backend) = "local" -> LocalStorage(raw)
      [] alias(raw.backend) = "s3" -> S3Storage(raw)
      [] alias(raw.backend) = "oss" -> OssStorage(raw)
      [] alias(raw.backend) = "gcs" -> GcsStorage(raw)
      [] alias(raw.backend) = "azure" -> AzureStorage(raw)
      [] alias(raw.backend) = "ftp" -> FtpStorage(raw)
      [] alias(raw.backend) = "sftp" -> SftpStorage(raw)
      [] alias(raw.backend) = "webdav" -> WebdavStorage(raw)
      [] OTHER -> <<>>

\* AssetArchiveConfig::database_policy() is Some.
Archives(raw) == alias(raw.backend) \in ArchiveBackends

known_backend(raw) == Check("ASSET_ARCHIVE_BACKEND", alias(raw.backend) \in ArchiveBackends \cup {"disabled"})
asset_archive_config(raw) ==
    asset_cache_policy(raw) \o << known_backend(raw) >>
    \o Storage(raw) \o Unless(~Archives(raw), asset_repair_policy(raw))

-----------------------------------------------------------------------------
(* The rest of the environment. *)

\* AppRoles::parse: a list of roles, or "all" alone.
parse_roles(raw) ==
    Check("APP_ROLES", raw.roles = {"all"} \/ (raw.roles # {} /\ raw.roles \subseteq {"api", "scheduler", "worker"}))
Roles(raw) == IF raw.roles = {"all"} THEN {"api", "scheduler", "worker"} ELSE raw.roles

\* The session key signs cookies: it is none of the other secrets.
session_key_differs(raw) ==
    Check("SESSION_SIGNING_KEY",
          raw.secret.SESSION_SIGNING_KEY \notin {raw.secret.ADMIN_PASSWORD, raw.secret.CREDENTIAL_ENCRYPTION_KEY})
Secrets(raw) ==
    << required(raw, "DATABASE_URL"), required(raw, "CREDENTIAL_ENCRYPTION_KEY"), parse_bool(raw, "ADMIN_ENABLED") >>
    \o Unless("ADMIN_ENABLED" \notin raw.on,
              << required(raw, "ADMIN_USERNAME"), required(raw, "ADMIN_PASSWORD"), required(raw, "SESSION_SIGNING_KEY"),
                 session_key_differs(raw) >>)

Database(raw) ==
    << well_formed(raw, "DATABASE_URL"), positive_u64(raw, "DATABASE_POOL_MAX_CONNECTIONS"),
       bounded_non_negative_u64(raw, "DATABASE_POOL_MIN_CONNECTIONS", Value(raw, "DATABASE_POOL_MAX_CONNECTIONS")) >>

parse_time(raw, v) == well_formed(raw, v)
\* Start and end of the quiet hours: both or none, each a time, not the same.
QuietLimits == {"QUIET_HOURS_START", "QUIET_HOURS_END"}
quiet_limits(raw) == Check("QUIET_HOURS", QuietLimits \cap raw.set \in {{}, QuietLimits})
QuietHours(raw) ==
    << quiet_limits(raw) >>
    \o Unless(QuietLimits \cap raw.set = {},
              << parse_time(raw, "QUIET_HOURS_START"), parse_time(raw, "QUIET_HOURS_END"), well_formed(raw, "QUIET_HOURS") >>)

BrowserEngine(raw) == well_formed(raw, "BROWSER_ENGINE")
parse_browser_user_agent(raw) == well_formed(raw, "BROWSER_USER_AGENT")
parse_browser_locale(raw) == well_formed(raw, "BROWSER_LOCALE")
parse_browser_extra_args(raw) == well_formed(raw, "BROWSER_EXTRA_ARGS")
parse_optional_weread_account_id(raw) == well_formed(raw, "WEREAD_ACCOUNT_ID")
parse_weread_article_list_url(raw) == well_formed(raw, "WEREAD_ARTICLE_LIST_URL")
bounded_browser_viewport(raw, v) == bounded_positive(raw, v, 8192)

Browser(raw) ==
    << BrowserEngine(raw), parse_browser_user_agent(raw), parse_browser_locale(raw),
       bounded_browser_viewport(raw, "BROWSER_VIEWPORT_WIDTH"), bounded_browser_viewport(raw, "BROWSER_VIEWPORT_HEIGHT"),
       parse_browser_extra_args(raw), parse_optional_weread_account_id(raw), parse_weread_article_list_url(raw),
       positive_u64(raw, "HTTP_PORT") >>

\* A lease outlives its heartbeat interval.
LeaseExceeds(raw, lease, heartbeat, margin) == Check(lease, Value(raw, lease) > Value(raw, heartbeat) + margin)

JobTimingWithoutPoll(raw) ==
    << positive_u64(raw, "JOB_LEASE_SECONDS"), positive_u64(raw, "JOB_HEARTBEAT_SECONDS"),
       LeaseExceeds(raw, "JOB_LEASE_SECONDS", "JOB_HEARTBEAT_SECONDS", 0) >>

JobTiming(raw) ==
    << positive_u64(raw, "JOB_POLL_SECONDS"), positive_u64(raw, "JOB_LEASE_SECONDS"), positive_u64(raw, "JOB_HEARTBEAT_SECONDS"),
       bounded_positive(raw, "JOB_EXECUTION_TIMEOUT_SECONDS", 86400),
       LeaseExceeds(raw, "JOB_LEASE_SECONDS", "JOB_HEARTBEAT_SECONDS", 0), positive_u64(raw, "JOB_MAX_ATTEMPTS"),
       positive_u64(raw, "ACCOUNT_LEASE_SECONDS"), positive_u64(raw, "ACCOUNT_HEARTBEAT_SECONDS"),
       LeaseExceeds(raw, "ACCOUNT_LEASE_SECONDS", "ACCOUNT_HEARTBEAT_SECONDS", 0),
       bounded_non_negative_u64(raw, "SOURCE_FAILURE_COOLDOWN_SECONDS", 604800) >>

FeedTiming(raw) ==
    << positive_u64(raw, "RSS_CACHE_TTL_SECONDS"),
       bounded_non_negative_u64(raw, "RSS_STALE_WHILE_REVALIDATE_SECONDS", 86400),
       bounded_positive(raw, "RSS_CACHE_MISS_WAIT_MS", 60000), parse_optional_http_url(raw, "SERVER_ROOT_URL"),
       parse_bool(raw, "ASSET_USE_ABSOLUTE_URLS") >>
    \o Unless(~Archives(raw) \/ "ASSET_USE_ABSOLUTE_URLS" \notin raw.on, << required(raw, "SERVER_ROOT_URL") >>)
    \o << positive_u64(raw, "FEED_BUILD_LEASE_SECONDS"), positive_u64(raw, "FEED_BUILD_HEARTBEAT_SECONDS"),
          LeaseExceeds(raw, "FEED_BUILD_LEASE_SECONDS", "FEED_BUILD_HEARTBEAT_SECONDS", 0) >>

bounded_delay(raw, v) == << well_formed(raw, v), bounded_non_negative_u64(raw, v, 300000) >>
DelayDistribution(raw, minimum, maximum) == Check("PACING", Value(raw, minimum) <= Value(raw, maximum))
distribution(raw, minimum, maximum) ==
    bounded_delay(raw, minimum) \o bounded_delay(raw, maximum) \o << DelayDistribution(raw, minimum, maximum) >>
\* PacingPolicy::new: no limit is zero.
PacingPolicy(raw) == Check("PACING", Value(raw, "SCROLL_MAX_OPERATION_SECONDS") > 0)

\* The lease of a job covers a heartbeat interval and one page operation.
PagePacing(raw) ==
    << bounded_non_negative_u64(raw, "SCROLL_MAX_OPERATION_SECONDS", 3600), bounded_positive(raw, "SCROLL_MAX_STEPS", 64),
       bounded_positive(raw, "SCROLL_MAX_PIXELS", 1000000),
       LeaseExceeds(raw, "JOB_LEASE_SECONDS", "JOB_HEARTBEAT_SECONDS", Value(raw, "SCROLL_MAX_OPERATION_SECONDS")) >>
    \o distribution(raw, "PACING_REQUEST_MIN_MS", "PACING_REQUEST_MAX_MS")
    \o distribution(raw, "PACING_PAGE_NAVIGATION_MIN_MS", "PACING_PAGE_NAVIGATION_MAX_MS")
    \o distribution(raw, "PACING_PAGE_ACTION_MIN_MS", "PACING_PAGE_ACTION_MAX_MS")
    \o distribution(raw, "PACING_SCROLL_SETTLE_MIN_MS", "PACING_SCROLL_SETTLE_MAX_MS")
    \o << PacingPolicy(raw) >>

\* AppConfig::from_env_iter and from_raw, check after check.
reject_legacy_variables(raw) == Check("legacy", "legacy" \notin raw.extra)
reject_unknown_variables(raw) == Check("unknown", "unknown" \notin raw.extra)
from_env_iter(raw) == << reject_legacy_variables(raw), reject_unknown_variables(raw), well_formed(raw, "number") >>
parse_log_level(raw) == well_formed(raw, "LOG_LEVEL")
Checks(raw) ==
    from_env_iter(raw)
    \o << parse_roles(raw), parse_log_level(raw), bounded_positive(raw, "WORKER_CONCURRENCY", 1024) >>
    \o asset_archive_config(raw) \o asset_refresh_policy(raw) \o Secrets(raw) \o Database(raw)
    \o << well_formed(raw, "WEBDRIVER_URL"), well_formed(raw, "APP_TIMEZONE") >>
    \o QuietHours(raw) \o Browser(raw) \o JobTiming(raw) \o FeedTiming(raw) \o PagePacing(raw)
    \o << well_formed(raw, "HTTP_BIND") >>
from_raw(raw) == FirstFailure(Checks(raw))

-----------------------------------------------------------------------------
(* The plan of an accepted environment and what building it refuses. *)

JobTypes == {"FeedRebuild", "SourceSync", "ArticleBackfill", "AssetRepair", "AssetRefresh", "CredentialRefresh"}
requires_browser(kind) == kind \in {"SourceSync", "ArticleBackfill", "AssetRefresh"}
EXECUTABLE_WORKER_JOB_TYPES == {"FeedRebuild", "SourceSync", "ArticleBackfill"}

\* RuntimePlan::from_config; refresher: with_credential_refresher was called.
AllowedJobTypes(raw, refresher) ==
    EXECUTABLE_WORKER_JOB_TYPES
    \cup (IF Archives(raw) THEN {"AssetRepair", "AssetRefresh"} ELSE {})
    \cup (IF refresher THEN {"CredentialRefresh"} ELSE {})

\* The handlers build_worker installs in the RuntimeJobHandler.
Handlers(raw, refresher) ==
    {"FeedRebuild", "SourceSync", "ArticleBackfill"}
    \cup {kind \in {"AssetRepair", "AssetRefresh"} : kind \in AllowedJobTypes(raw, refresher)}
    \cup (IF refresher THEN {"CredentialRefresh"} ELSE {})

\* Browser sessions at a time, 0 without a pool.
browser_pool_for_plan(raw) ==
    IF "worker" \in Roles(raw) THEN Value(raw, "WORKER_CONCURRENCY")
    ELSE IF "api" \in Roles(raw) /\ "ADMIN_ENABLED" \in raw.on THEN 1 ELSE 0

\* Errors of building the blob store: the client of an external service or
\* directory may be refused, the database's own store never is.
build_blob_store(raw) == IF Archives(raw) /\ alias(raw.backend) # "database" THEN {"storage"} ELSE {}

browser_pool(raw) == Check("BROWSER_POOL", browser_pool_for_plan(raw) > 0)

chrono_duration(raw, v) == Check(v, Value(raw, v) <= MaxChrono)

\* RuntimeSupervisor::validated_plan, before anything is connected.
validated_plan(raw) ==
    Unless("worker" \notin Roles(raw), << chrono_duration(raw, "JOB_LEASE_SECONDS") >>)
    \o Unless(Roles(raw) \cap {"api", "worker"} = {}, << required(raw, "SERVER_ROOT_URL") >>)

AuthServiceConfig(raw) == << LeaseExceeds(raw, "ACCOUNT_LEASE_SECONDS", "ACCOUNT_HEARTBEAT_SECONDS", 0) >>
RingCredentialCipher(raw) == << required(raw, "CREDENTIAL_ENCRYPTION_KEY") >>
build_auth_service(raw) ==
    << chrono_duration(raw, "ACCOUNT_LEASE_SECONDS"), chrono_duration(raw, "ACCOUNT_HEARTBEAT_SECONDS") >>
    \o AuthServiceConfig(raw) \o RingCredentialCipher(raw)

RebuildDurations(raw) == << chrono_duration(raw, "FEED_BUILD_LEASE_SECONDS"), chrono_duration(raw, "RSS_CACHE_TTL_SECONDS") >>

FeedRebuildConfig(raw) ==
    << positive_u64(raw, "RSS_CACHE_TTL_SECONDS"),
       LeaseExceeds(raw, "FEED_BUILD_LEASE_SECONDS", "FEED_BUILD_HEARTBEAT_SECONDS", 0) >>
feed_rebuild_config(raw) ==
    << required(raw, "SERVER_ROOT_URL"), chrono_duration(raw, "FEED_BUILD_HEARTBEAT_SECONDS") >> \o FeedRebuildConfig(raw)

FeedServiceConfig(raw) == << positive_u64(raw, "RSS_CACHE_MISS_WAIT_MS") >>
JobServiceConfig(raw) == << positive_u64(raw, "JOB_MAX_ATTEMPTS") >>
AdminAuthenticator(raw) ==
    << required(raw, "ADMIN_USERNAME"), required(raw, "ADMIN_PASSWORD"), required(raw, "SESSION_SIGNING_KEY") >>

build_api_router(raw) ==
    << chrono_duration(raw, "RSS_STALE_WHILE_REVALIDATE_SECONDS"), chrono_duration(raw, "RSS_CACHE_MISS_WAIT_MS") >>
    \o FeedServiceConfig(raw) \o JobServiceConfig(raw) \o RebuildDurations(raw) \o feed_rebuild_config(raw)
    \o Unless("ADMIN_ENABLED" \notin raw.on, AdminAuthenticator(raw) \o build_auth_service(raw))

BrowserSourceSyncAcquirerConfig(raw) ==
    << well_formed(raw, "WEREAD_ACCOUNT_ID"), LeaseExceeds(raw, "ACCOUNT_LEASE_SECONDS", "ACCOUNT_HEARTBEAT_SECONDS", 0) >>
WeReadAdapterConfig(raw) == << well_formed(raw, "WEREAD_ARTICLE_LIST_URL") >>
build_source_sync_acquirer(raw) ==
    << chrono_duration(raw, "ACCOUNT_LEASE_SECONDS"), chrono_duration(raw, "ACCOUNT_HEARTBEAT_SECONDS") >>
    \o BrowserSourceSyncAcquirerConfig(raw) \o WeReadAdapterConfig(raw)
    \o << browser_pool(raw) >> \o build_auth_service(raw)

\* A cooldown of zero is refused here.
SourceSyncJobHandlerConfig(raw) ==
    << positive_u64(raw, "JOB_POLL_SECONDS"), positive_u64(raw, "SOURCE_FAILURE_COOLDOWN_SECONDS") >>
build_source_sync_handler(raw) ==
    build_source_sync_acquirer(raw)
    \o << chrono_duration(raw, "JOB_POLL_SECONDS"), chrono_duration(raw, "SOURCE_FAILURE_COOLDOWN_SECONDS") >>
    \o SourceSyncJobHandlerConfig(raw)

ArticleBackfillJobHandlerConfig(raw) == << positive_u64(raw, "JOB_POLL_SECONDS") >>
build_article_backfill_handler(raw) ==
    build_source_sync_acquirer(raw)
    \o << chrono_duration(raw, "JOB_POLL_SECONDS") >> \o ArticleBackfillJobHandlerConfig(raw)

build_credential_refresh_handler(raw) ==
    build_auth_service(raw) \o << chrono_duration(raw, "JOB_POLL_SECONDS") >>

build_asset_refresh_handler(raw) == << browser_pool(raw) >>
FeedRebuildJobHandlerConfig(raw) == << positive_u64(raw, "JOB_POLL_SECONDS") >>
JobWorkerConfig(raw) == << LeaseExceeds(raw, "JOB_LEASE_SECONDS", "JOB_HEARTBEAT_SECONDS", 0) >>

build_worker(raw, refresher) ==
    RebuildDurations(raw) \o << chrono_duration(raw, "JOB_POLL_SECONDS") >> \o feed_rebuild_config(raw)
    \o FeedRebuildJobHandlerConfig(raw)
    \o Unless("AssetRefresh" \notin AllowedJobTypes(raw, refresher), build_asset_refresh_handler(raw))
    \o build_source_sync_handler(raw) \o build_article_backfill_handler(raw)
    \o Unless(~refresher, build_credential_refresh_handler(raw))
    \o JobWorkerConfig(raw)

SchedulerLoopConfig(raw) == << positive_u64(raw, "JOB_POLL_SECONDS") >>
CredentialRefreshScheduleConfig(raw) == << positive_u64(raw, "JOB_MAX_ATTEMPTS") >>
build_scheduler(raw, refresher) == SchedulerLoopConfig(raw) \o Unless(~refresher, CredentialRefreshScheduleConfig(raw))

build(raw, refresher, component) ==
    CASE component = "api" -> FirstFailure(build_api_router(raw))
      [] component = "scheduler" -> FirstFailure(build_scheduler(raw, refresher))
      [] component = "worker" -> FirstFailure(build_worker(raw, refresher))

-----------------------------------------------------------------------------
(* Properties of one environment. *)

Unrepresentable(raw, v) == Value(raw, v) > MaxChrono

\* What starting may refuse although the configuration was accepted.
KnownRefusals(raw) ==
    (IF "SERVER_ROOT_URL" \in raw.set THEN {} ELSE {"SERVER_ROOT_URL"})
    \cup {v \in {"JOB_LEASE_SECONDS", "JOB_POLL_SECONDS", "ACCOUNT_LEASE_SECONDS", "ACCOUNT_HEARTBEAT_SECONDS",
                 "RSS_CACHE_TTL_SECONDS", "FEED_BUILD_LEASE_SECONDS", "FEED_BUILD_HEARTBEAT_SECONDS"} : Unrepresentable(raw, v)}
    \cup (IF "worker" \in Roles(raw) /\ Value(raw, "SOURCE_FAILURE_COOLDOWN_SECONDS") = 0
          THEN {"SOURCE_FAILURE_COOLDOWN_SECONDS"} ELSE {})
=============================================================================
