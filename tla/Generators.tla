----------------------------- MODULE Generators -----------------------------
(***************************************************************************)
(* The generators (src/internal/pkg/generators): which objects a custom    *)
(* resource becomes, and which fields of its defaulted spec reach them.    *)
(*                                                                         *)
(* A workload is a table: the section of the spec it is configured by, its *)
(* image, its pod, its variables, its endpoints and how it is monitored    *)
(* and scaled.  One builder (DeploymentWorkload) turns a workload and its  *)
(* canary into objects, as deployment_workload.New does.                   *)
(***************************************************************************)
EXTENDS ApiSpecs, PodOptions, Publishing

(* A pod: the ports of its container, the port (or Number) and the field   *)
(* of its probes, the fields it reads, those it dereferences, and its      *)
(* volumes, all of them mounted.                                           *)
Number == "number"
NoProbe == <<"none", "none">>
Pod(ports, liveness, readiness, reads, derefs, volumes) ==
    [ports |-> ports, liveness |-> liveness, readiness |-> readiness, reads |-> reads,
     derefs |-> {<<"resources">>} \cup derefs, volumes |-> volumes]
Liveness(port) == <<port, "livenessProbe">>
Readiness(port) == <<port, "readinessProbe">>
Affinity == {<<"nodeAffinity">>, <<"tolerations">>}
Replicated == Affinity \cup {<<"replicas">>}
Probes == {<<"livenessProbe">>, <<"readinessProbe">>}
Terminating == {<<"terminationGracePeriodSeconds">>}

(* A workload.  scaled: it has a HorizontalPodAutoscaler and a             *)
(* PodDisruptionBudget; traffic: the value of its traffic label, the same  *)
(* for its canary except where the code takes the component's name.        *)
Workload(component, at, image, pod, declared) ==
    [component |-> component, at |-> at, image |-> image, pod |-> pod, declared |-> declared,
     extra |-> Empty, secrets |-> {}, scaled |-> TRUE, monitored |-> {"metrics"},
     endpoints |-> <<>>, traffic |-> "", ownTraffic |-> FALSE, twemproxy |-> FALSE,
     canary |-> FALSE]

-----------------------------------------------------------------------------
(* Backend.                                                                *)

NewCronOptions ==
    Vars(<<"config">>, [RACK_ENV |-> "rackEnv", CONFIG_REDIS_PROXY |-> "redisStorageDSN",
                        CONFIG_QUEUES_MASTER_NAME |-> "redisQueuesDSN"])
    \cup {Const("CONFIG_REDIS_SENTINEL_HOSTS"), Const("CONFIG_REDIS_SENTINEL_ROLE"),
          Const("CONFIG_QUEUES_SENTINEL_HOSTS"), Const("CONFIG_QUEUES_SENTINEL_ROLE")}
    \cup SecretVars("backend-error-monitoring", <<"config">>,
                    [CONFIG_HOPTOAD_SERVICE |-> "errorMonitoringService",
                     CONFIG_HOPTOAD_API_KEY |-> "errorMonitoringKey"])
NewListenerOptions ==
    NewCronOptions
    \cup Vars(<<"config">>, [CONFIG_MASTER_SERVICE_ID |-> "masterServiceID"])
    \cup Vars(<<"listener", "config">>,
              [CONFIG_REQUEST_LOGGERS |-> "logFormat", CONFIG_REDIS_ASYNC |-> "redisAsync",
               LISTENER_WORKERS |-> "listenerWorkers",
               CONFIG_LEGACY_REFERRER_FILTERS |-> "legacyReferrerFilters"])
    \cup {Const("CONFIG_LISTENER_PROMETHEUS_METRICS_ENABLED")}
    \cup SecretVars("backend-internal-api", <<"config">>,
                    [CONFIG_INTERNAL_API_USER |-> "internalAPIUser",
                     CONFIG_INTERNAL_API_PASSWORD |-> "internalAPIPassword"])
NewWorkerOptions ==
    NewCronOptions
    \cup Vars(<<"config">>, [CONFIG_MASTER_SERVICE_ID |-> "masterServiceID"])
    \cup Vars(<<"worker", "config">>, [CONFIG_REDIS_ASYNC |-> "redisAsync",
                                       CONFIG_WORKERS_LOGGER_FORMATTER |-> "logFormat"])
    \cup {Const("CONFIG_WORKER_PROMETHEUS_METRICS_ENABLED"),
          Const("CONFIG_WORKER_PROMETHEUS_METRICS_PORT")}
    \cup SecretVars("backend-system-events-hook", <<"config">>,
                    [CONFIG_EVENTS_HOOK |-> "systemEventsHookURL",
                     CONFIG_EVENTS_HOOK_SHARED_SECRET |-> "systemEventsHookPassword"])

DefaultListenerPublishingStrategy == <<DefaultEndpoint("HTTP", {"http"})>>
ListenerDeployment == Pod({"http", "metrics"}, Liveness("http"), Readiness("http"), Replicated,
                          Probes \cup {<<"config", "redisAsync">>}, {})
WorkerDeployment == Pod({"metrics"}, Liveness("metrics"), Readiness("metrics"), Replicated,
                        Probes, {})
CronDeployment == Pod({}, NoProbe, NoProbe, Replicated, {}, {})

ListenerGenerator ==
    [Workload("backend-listener", <<"listener">>, <<"image">>, ListenerDeployment,
              NewListenerOptions) EXCEPT
        !.monitored = {"metrics", "envoy-metrics"}, !.traffic = "backend-listener",
        !.endpoints = DefaultListenerPublishingStrategy, !.twemproxy = TRUE, !.canary = TRUE]
WorkerGenerator ==
    [Workload("backend-worker", <<"worker">>, <<"image">>, WorkerDeployment, NewWorkerOptions)
        EXCEPT !.twemproxy = TRUE, !.canary = TRUE]
CronGenerator ==
    [Workload("backend-cron", <<"cron">>, <<"image">>, CronDeployment, NewCronOptions)
        EXCEPT !.scaled = FALSE, !.monitored = {}]
BackendGenerator == <<ListenerGenerator, WorkerGenerator, CronGenerator>>

-----------------------------------------------------------------------------
(* System.                                                                 *)

SystemVars ==
    Vars(<<"config">>, [FORCE_SSL |-> "forceSSL", PROVIDER_PLAN |-> "threescaleProviderPlan",
        SSL_CERT_DIR |-> "sslCertsDir", THREESCALE_SUPERDOMAIN |-> "threescaleSuperdomain",
        THREESCALE_SANDBOX_PROXY_OPENSSL_VERIFY_MODE |-> "sandboxProxyOpensslVerifyMode",
        MEMCACHE_SERVERS |-> "memcachedServers"])
    \cup Vars(<<"config", "rails">>, [RAILS_ENV |-> "environment", RAILS_LOG_LEVEL |-> "logLevel"])
    \cup Vars(<<"config", "searchServer">>,
              [THINKING_SPHINX_ADDRESS |-> "host", THINKING_SPHINX_PORT |-> "port",
               THINKING_SPHINX_BATCH_SIZE |-> "batchSize"])
    \cup Vars(<<"config", "redis">>, [REDIS_URL |-> "queuesDSN"])
    \cup Vars(<<"config", "smtp">>,
              [SMTP_ADDRESS |-> "address", SMTP_PORT |-> "port", SMTP_STARTTLS |-> "starttls",
               SMTP_AUTHENTICATION |-> "authProtocol", SMTP_STARTTLS_AUTO |-> "starttlsAuto",
               SMTP_OPENSSL_VERIFY_MODE |-> "opensslVerifyMode"])
    \cup Vars(<<"config", "zync">>, [ZYNC_ENDPOINT |-> "endpoint"])
    \cup Vars(<<"config", "backend">>,
              [BACKEND_REDIS_URL |-> "redisDSN", BACKEND_URL |-> "internalEndpoint",
               BACKEND_PUBLIC_URL |-> "externalEndpoint"])
    \cup Vars(<<"config", "assets">>,
              [AWS_BUCKET |-> "bucket", AWS_REGION |-> "region",
               AWS_S3_HOSTNAME |-> "s3Endpoint", RAILS_ASSET_HOST |-> "host"])
    \cup Vars(<<"config", "segment">>, [SEGMENT_DELETION_WORKSPACE |-> "deletionWorkspace"])
    \cup Vars(<<"config", "redhatCustomerPortal">>, [RH_CUSTOMER_PORTAL_REALM |-> "realm"])
    \cup Vars(<<"config", "bugsnag">>, [BUGSNAG_RELEASE_STAGE |-> "releaseStage"])
    \cup Vars(<<"config", "apicast">>,
              [APICAST_STAGING_DOMAIN |-> "stagingDomain",
               APICAST_PRODUCTION_DOMAIN |-> "productionDomain",
               APICAST_CLOUD_HOSTED_REGISTRY_URL |-> "cloudHostedRegistryURL",
               APICAST_SELF_MANAGED_REGISTRY_URL |-> "selfManagedRegistryURL"])
    \cup {Const("RAILS_LOG_TO_STDOUT"), Const("REDIS_NAMESPACE"), Const("REDIS_SENTINEL_HOSTS"),
          Const("REDIS_SENTINEL_ROLE"), Const("BACKEND_REDIS_SENTINEL_HOSTS"),
          Const("BACKEND_REDIS_SENTINEL_ROLE")}
SystemSecretVars ==
    SecretVars("system-database", <<"config">>, [DATABASE_URL |-> "databaseDSN"])
    \cup SecretVars("system-recaptcha", <<"config", "recaptcha">>,
                    [RECAPTCHA_PUBLIC_KEY |-> "publicKey", RECAPTCHA_PRIVATE_KEY |-> "privateKey"])
    \cup SecretVars("system-events-hook", <<"config">>,
                    [EVENTS_SHARED_SECRET |-> "eventsSharedSecret"])
    \cup SecretVars("system-smtp", <<"config", "smtp">>,
                    [SMTP_USER_NAME |-> "user", SMTP_PASSWORD |-> "password"])
    \cup SecretVars("system-master-apicast", <<"config">>,
                    [APICAST_ACCESS_TOKEN |-> "mappingServiceAccessToken"])
    \cup SecretVars("system-zync", <<"config", "zync">>,
                    [ZYNC_AUTHENTICATION_TOKEN |-> "authToken"])
    \cup SecretVars("system-backend", <<"config", "backend">>,
                    [CONFIG_INTERNAL_API_USER |-> "internalAPIUser",
                     CONFIG_INTERNAL_API_PASSWORD |-> "internalAPIPassword"])
    \cup SecretVars("system-multitenant-assets-s3", <<"config", "assets">>,
                    [AWS_ACCESS_KEY_ID |-> "accessKey", AWS_SECRET_ACCESS_KEY |-> "secretKey"])
    \cup SecretVars("system-app", <<"config">>,
                    [SECRET_KEY_BASE |-> "secretKeyBase", ACCESS_CODE |-> "accessCode",
                     DB_SECRET |-> "databaseSecret"])
    \cup SecretVars("system-app", <<"config", "segment">>,
                    [SEGMENT_DELETION_TOKEN |-> "deletionToken", SEGMENT_WRITE_KEY |-> "writeKey"])
    \cup SecretVars("system-app", <<"config", "github">>,
                    [GITHUB_CLIENT_ID |-> "clientID", GITHUB_CLIENT_SECRET |-> "clientSecret"])
    \cup SecretVars("system-app", <<"config", "redhatCustomerPortal">>,
                    [RH_CUSTOMER_PORTAL_CLIENT_ID |-> "clientID",
                     RH_CUSTOMER_PORTAL_CLIENT_SECRET |-> "clientSecret"])
Bugsnag(secret) == {Declare("BUGSNAG_API_KEY", secret, <<"config", "bugsnag", "apiKey">>,
                            <<"config", "bugsnag">>)}
NewSystemOptions == SystemVars \cup SystemSecretVars \cup Bugsnag("system-app")

ConfigFilesSecret == <<"config", "configFilesSecret">>
DefaultAppPublishingStrategy == <<DefaultEndpoint("HTTP", {"ui-api"})>>
AppDeployment == Pod({"ui-api", "metrics"}, Liveness("ui-api"), Readiness("ui-api"),
                     Replicated \cup Terminating, Probes \cup {<<"deploymentStrategy">>},
                     {"system-config"})
\* Both probes of sidekiq are configured by the liveness probe's section.
SidekiqDeployment == Pod({"metrics"}, Liveness("metrics"), Liveness("metrics"),
                         Replicated \cup Terminating \cup {<<"config", "queues">>},
                         {<<"livenessProbe">>, <<"deploymentStrategy">>, <<"config", "maxThreads">>},
                         {"system-tmp", "system-config"})
SearchdStatefulSet == Pod({"searchd"}, Liveness("searchd"), Readiness("searchd"),
                          Affinity \cup Terminating \cup {<<"config", "databaseStorageClass">>},
                          Probes \cup {<<"config", "serviceName">>, <<"config", "port">>,
                                       <<"config", "databasePath">>,
                                       <<"config", "databaseStorageSize">>},
                          {"system-searchd-database"})
ConsoleStatefulSet == Pod({}, NoProbe, NoProbe, {<<"tolerations">>}, {}, {"system-config"})

SystemWorkload(component, at, pod) ==
    [Workload(component, at, <<"image">>, pod, NewSystemOptions) EXCEPT
        !.secrets = {ConfigFilesSecret}, !.twemproxy = TRUE, !.canary = TRUE]
AppGenerator ==
    [SystemWorkload("system-app", <<"app">>, AppDeployment) EXCEPT
        !.endpoints = DefaultAppPublishingStrategy, !.traffic = "system-app"]
SidekiqGenerator(component, at) ==
    [SystemWorkload(component, at, SidekiqDeployment) EXCEPT
        !.extra = [RAILS_MAX_THREADS |-> at \o <<"config", "maxThreads">>]]
SystemGenerator ==
    <<AppGenerator, SidekiqGenerator("system-sidekiq-default", <<"sidekiqDefault">>),
      SidekiqGenerator("system-sidekiq-billing", <<"sidekiqBilling">>),
      SidekiqGenerator("system-sidekiq-low", <<"sidekiqLow">>)>>

(* The workloads that are StatefulSets: enabled is the field that says     *)
(* whether they exist and on its default, serviced whether they have a     *)
(* Service of their own.                                                   *)
StatefulSet(w, enabled, on, serviced) ==
    [w |-> [w EXCEPT !.scaled = FALSE], enabled |-> enabled, on |-> on, serviced |-> serviced]
SearchdGenerator ==
    StatefulSet([Workload("system-searchd", <<"searchd">>, <<"searchd", "image">>,
                          SearchdStatefulSet, {}) EXCEPT !.monitored = {}],
                <<"searchd", "enabled">>, TRUE, TRUE)
ConsoleGenerator ==
    StatefulSet([SystemWorkload("system-console", <<"console">>, ConsoleStatefulSet) EXCEPT
                    !.image = <<"console", "image">>],
                <<"config", "rails", "console">>, FALSE, FALSE)

SystemStatefulSets == <<SearchdGenerator, ConsoleGenerator>>

-----------------------------------------------------------------------------
(* Zync.                                                                   *)

NewQueOptions ==
    Vars(<<"config", "rails">>, [RAILS_ENV |-> "environment", RAILS_LOG_LEVEL |-> "logLevel"])
    \cup Vars(<<"config", "bugsnag">>, [BUGSNAG_RELEASE_STAGE |-> "releaseStage"])
    \cup {Const("RAILS_LOG_TO_STDOUT")} \cup Bugsnag("zync")
    \cup SecretVars("zync", <<"config">>,
                    [DATABASE_URL |-> "databaseDSN", SECRET_KEY_BASE |-> "secretKeyBase",
                     ZYNC_AUTHENTICATION_TOKEN |-> "zyncAuthToken"])
NewAPIOptions ==
    NewQueOptions \cup Vars(<<"config", "rails">>, [RAILS_MAX_THREADS |-> "maxThreads"])
DefaultAPIPublishingStrategy == <<DefaultEndpoint("HTTP", {"http"})>>
APIDeployment == Pod({"http", "metrics"}, Liveness("http"), Readiness("http"), Replicated,
                     Probes, {})
\* Mutant: both probes are configured by the liveness probe's section.
QueDeploymentOneProbe == Pod({"metrics"}, Liveness("metrics"), Liveness("metrics"), Replicated,
                             {<<"livenessProbe">>}, {})
QueDeployment == Pod({"metrics"}, Liveness("metrics"), Readiness("metrics"), Replicated,
                     Probes, {})
ZyncConsoleStatefulSet == Pod({"http", "metrics"}, NoProbe, NoProbe, Affinity, {}, {})
APIGenerator ==
    [Workload("zync", <<"api">>, <<"image">>, APIDeployment, NewAPIOptions) EXCEPT
        !.endpoints = DefaultAPIPublishingStrategy, !.traffic = "zync"]
QueGenerator == Workload("zync-que", <<"que">>, <<"image">>, QueDeployment, NewQueOptions)
ZyncConsoleGenerator ==
    StatefulSet(Workload("zync-console", <<"console">>, <<"console", "image">>,
                         ZyncConsoleStatefulSet, NewAPIOptions), <<"console", "enabled">>, FALSE, FALSE)
ZyncGenerator == <<APIGenerator, QueGenerator>>
ZyncStatefulSets == <<ZyncConsoleGenerator>>

-----------------------------------------------------------------------------
(* Apicast, AutoSSL, MappingService, CORSProxy and EchoAPI.                *)

NewEnvOptions(env) ==
    Vars(<<env, "config">>, [APICAST_CONFIGURATION_CACHE |-> "configurationCache",
        THREESCALE_PORTAL_ENDPOINT |-> "threescalePortalEndpoint",
        APICAST_LOG_LEVEL |-> "logLevel", APICAST_OIDC_LOG_LEVEL |-> "oidcLogLevel"])
    \cup {Const("APICAST_CONFIGURATION_LOADER"), Const("APICAST_EXTENDED_METRICS"),
          Const("THREESCALE_DEPLOYMENT_ENV"), Const("APICAST_RESPONSE_CODES")}
ApicastPublishingStrategy ==
    <<DefaultEndpoint("Gateway", {"gateway"}), DefaultEndpoint("Management", {"management"})>>
ApicastDeployment == Pod({"gateway", "management", "metrics"}, Liveness("gateway"),
                         Readiness("management"), Replicated, Probes, {})
EnvGenerator(env) ==
    [Workload("apicast-" \o env, <<env>>, <<env, "image">>, ApicastDeployment, NewEnvOptions(env))
        EXCEPT !.monitored = {"metrics", "envoy-metrics"}, !.canary = TRUE, !.ownTraffic = TRUE,
               !.endpoints = ApicastPublishingStrategy]
ApicastGenerator == <<EnvGenerator("staging"), EnvGenerator("production")>>

NewAutoSSLOptions ==
    Vars(<<"config">>, [ACME_STAGING |-> "acmeStaging", CONTACT_EMAIL |-> "contactEmail",
        PROXY_ENDPOINT |-> "proxyEndpoint", REDIS_HOST |-> "redisHost", LOG_LEVEL |-> "logLevel",
        REDIS_PORT |-> "redisPort", VERIFICATION_ENDPOINT |-> "verificationEndpoint",
        DOMAIN_WHITELIST |-> "domainWhitelist", DOMAIN_BLACKLIST |-> "domainBlacklist"])
    \cup {Const("STORAGE_ADAPTER")}
AutoSSLPublishingStrategy == <<DefaultEndpoint("Proxy", {"http", "https"})>>
AutoSSLDeployment == Pod({"http", "https", "http-no-pp", "https-no-pp", "metrics"},
                         Liveness(Number), Readiness(Number), Replicated,
                         Probes \cup {<<"config", "acmeStaging">>}, {"autossl-cache", "nginx-cache"})
AutoSSLGenerator ==
    <<[Workload("autossl", <<>>, <<"image">>, AutoSSLDeployment, NewAutoSSLOptions) EXCEPT
        !.endpoints = AutoSSLPublishingStrategy, !.traffic = "autossl", !.canary = TRUE]>>

NewMappingServiceOptions ==
    Vars(<<"config">>, [API_HOST |-> "apiHost", APICAST_LOG_LEVEL |-> "logLevel",
                        PREVIEW_BASE_DOMAIN |-> "previewBaseDomain"])
    \cup {Const("APICAST_CONFIGURATION_LOADER")}
    \cup SecretVars("mapping-service-system-master-access-token", <<"config">>,
                    [MASTER_ACCESS_TOKEN |-> "systemAdminToken"])
MappingServicePublishingStrategy == <<DefaultEndpoint("HTTP", {"mapping", "management"})>>
MappingServiceDeployment == Pod({"mapping", "management", "metrics"}, Liveness("mapping"),
                                Readiness("management"), Replicated, Probes, {})
MappingServiceGenerator ==
    <<[Workload("mapping-service", <<>>, <<"image">>, MappingServiceDeployment,
                NewMappingServiceOptions) EXCEPT
        !.endpoints = MappingServicePublishingStrategy, !.traffic = "mapping-service"]>>

NewCORSProxyOptions ==
    SecretVars("cors-proxy-system-database", <<"config">>, [DATABASE_URL |-> "systemDatabaseDSN"])
CORSProxyPublishingStrategy == <<DefaultEndpoint("HTTP", {"http"})>>
CORSProxyDeployment == Pod({"http", "metrics"}, Liveness("metrics"), Readiness("metrics"),
                           Replicated, Probes, {})
CORSProxyGenerator ==
    <<[Workload("cors-proxy", <<>>, <<"image">>, CORSProxyDeployment, NewCORSProxyOptions) EXCEPT
        !.endpoints = CORSProxyPublishingStrategy, !.traffic = "cors-proxy"]>>

EchoAPIPublishingStrategy == <<DefaultEndpoint("HTTP", {"http"})>>
EchoAPIDeployment == Pod({"http"}, Liveness(Number), Readiness(Number), Replicated, Probes, {})
EchoAPIGenerator ==
    <<[Workload("echo-api", <<>>, <<"image">>, EchoAPIDeployment, {}) EXCEPT
        !.monitored = {"envoy-metrics"}, !.traffic = "echo-api",
        !.endpoints = EchoAPIPublishingStrategy]>>

-----------------------------------------------------------------------------
(* Sentinel and RedisShard, whose probes are fixed.                        *)

SentinelStatefulSet ==
    Pod({"redis-sentinel"}, NoProbe, NoProbe, Replicated \cup {<<"config", "storageClass">>},
        {<<"config", "storageSize">>, <<"replicas">>},
        {"redis-sentinel-config-rw", "redis-sentinel-gen-config"})
SentinelGenerator ==
    [Workload("redis-sentinel", <<>>, <<"image">>, SentinelStatefulSet, {}) EXCEPT
        !.monitored = {}, !.scaled = FALSE]
RedisShardStatefulSet ==
    [Pod({"redis-server"}, NoProbe, NoProbe, {},
         {<<"slaveCount">>, <<"command">>},
         {"redis-config", "redis-readiness-script", "redis-data"}) EXCEPT
        !.derefs = @ \ {<<"resources">>}]
RedisShardGenerator ==
    [Workload("redis-shard", <<>>, <<"image">>, RedisShardStatefulSet, {}) EXCEPT
        !.monitored = {}, !.scaled = FALSE]
=============================================================================
