------------------------------ MODULE ApiSpecs ------------------------------
(***************************************************************************)
(* The specs of the custom resources (src/api/v1alpha1), as tables of the  *)
(* rules that their Default() methods apply to each field, and the blocks  *)
(* of defaults those methods use.                                          *)
(***************************************************************************)
EXTENDS ApiDefaults

PublishingStrategies == Block("filled", {"mode", "endpoints"}, Defaults({"mode", "endpoints"}))
UndefaultedStrategies == Optional(Leaves({"mode", "endpoints"}, {}))
Marin3rSidecarSpec ==
    Block("init", {"ports", "resources", "extraPodAnnotations", "nodeID", "dynamicConfigs"}, Empty)
Endpoint == Optional(Leaves({"dns"}, {}))
Placement == Leaves({"nodeAffinity", "tolerations"}, {})

\* The fields every scaled Deployment has.
Scaled(hpa, pdb, resources, liveness, readiness) ==
    [hpa |-> HorizontalPodAutoscalerSpec(hpa), pdb |-> PodDisruptionBudgetSpec(pdb),
     replicas |-> Field(Fallback), resources |-> ResourceRequirementsSpec(resources),
     livenessProbe |-> ProbeSpec(liveness), readinessProbe |-> ProbeSpec(readiness)]
    @@ Placement

-----------------------------------------------------------------------------
(* Twemproxy, the sidecar of Backend and System.                           *)

twemproxyDefaults == [image |-> NameTagAndPolicy, livenessProbe |-> EveryProbeField,
                      readinessProbe |-> EveryProbeField, resources |-> Empty]
TwemproxyOptions == Struct(Leaves({}, {"logLevel", "metricsAddress", "statsInterval"}))
TwemproxySpec ==
    Optional([image |-> ImageSpec(twemproxyDefaults.image),
              resources |-> ResourceRequirementsSpec(twemproxyDefaults.resources),
              livenessProbe |-> ProbeSpec(twemproxyDefaults.livenessProbe),
              readinessProbe |-> ProbeSpec(twemproxyDefaults.readinessProbe),
              twemproxyConfigRef |-> Field(Nil),
              options |-> TwemproxyOptions])

-----------------------------------------------------------------------------
(* Backend.                                                                *)

backendDefaults ==
    [image |-> NameTagAndPolicy, grafanaDashboard |-> Selector,
     listenerHPA |-> Scaling, listenerPDB |-> MaxUnavailable,
     listenerResources |-> RequestsAndLimits, listenerLivenessProbe |-> EveryProbeField,
     listenerReadinessProbe |-> EveryProbeField, listenerMarin3r |-> Empty,
     workerHPA |-> Scaling, workerPDB |-> MaxUnavailable,
     workerResources |-> RequestsAndLimits, workerLivenessProbe |-> EveryProbeField,
     workerReadinessProbe |-> EveryProbeField, cronResources |-> RequestsAndLimits]

ListenerConfig ==
    Struct(Leaves({}, {"logFormat", "redisAsync", "listenerWorkers", "legacyReferrerFilters"}))
ListenerSpec ==
    Struct(Scaled(backendDefaults.listenerHPA, backendDefaults.listenerPDB,
                  backendDefaults.listenerResources, backendDefaults.listenerLivenessProbe,
                  backendDefaults.listenerReadinessProbe)
           @@ [config |-> ListenerConfig, canary |-> Canary, endpoint |-> Endpoint,
               publishingStrategies |-> PublishingStrategies,
               marin3r |-> Marin3rSidecarSpec, loadBalancer |-> NetworkLoadBalancerSpec])
WorkerConfig == Struct(Leaves({}, {"logFormat", "redisAsync"}))
WorkerSpec ==
    Struct(Scaled(backendDefaults.workerHPA, backendDefaults.workerPDB,
                  backendDefaults.workerResources, backendDefaults.workerLivenessProbe,
                  backendDefaults.workerReadinessProbe)
           @@ [config |-> WorkerConfig, canary |-> Canary])
CronSpec ==
    Struct([replicas |-> Field(Fallback),
            resources |-> ResourceRequirementsSpec(backendDefaults.cronResources)] @@ Placement)
BackendConfig ==
    Struct(Leaves({"redisStorageDSN", "redisQueuesDSN"}, {"rackEnv", "masterServiceID"})
           @@ Secrets({"systemEventsHookURL", "systemEventsHookPassword", "internalAPIUser",
                       "internalAPIPassword", "errorMonitoringService", "errorMonitoringKey"})
           @@ [externalSecret |-> ExternalSecret])
BackendSpec ==
    [image |-> ImageSpec(backendDefaults.image), config |-> BackendConfig,
     grafanaDashboard |-> GrafanaDashboardSpec(backendDefaults.grafanaDashboard),
     listener |-> ListenerSpec, worker |-> WorkerSpec, cron |-> CronSpec,
     twemproxy |-> TwemproxySpec]

-----------------------------------------------------------------------------
(* System.  Its tekton tasks are a list and are modelled in module Tasks.  *)

systemDefaults ==
    [image |-> NameTagAndPolicy, grafanaDashboard |-> Selector,
     appResources |-> RequestsAndLimits, appStrategy |-> RollingUpdate, appHPA |-> Scaling,
     appLivenessProbe |-> EveryProbeField, appReadinessProbe |-> EveryProbeField,
     appPDB |-> MaxUnavailable]
systemSidekiqDefaults ==
    [resources |-> RequestsAndLimits, strategy |-> RollingUpdate, hpa |-> Scaling,
     livenessProbe |-> EveryProbeField, readinessProbe |-> EveryProbeField,
     pdb |-> MaxUnavailable]
systemSearchdDefaults ==
    [image |-> NameTagAndPolicy, resources |-> RequestsAndLimits,
     livenessProbe |-> EveryProbeField, readinessProbe |-> EveryProbeField]
systemConsoleDefaults == [resources |-> RequestsAndLimits]

SystemRailsSpec == Struct(Leaves({}, {"console", "environment", "logLevel"}))
SearchServerSpec == Struct(Leaves({}, {"host", "port", "batchSize"}))
SystemRecaptchaSpec == Struct(Secrets({"publicKey", "privateKey"}))
SegmentSpec == Struct(Leaves({"deletionWorkspace"}, {}) @@ Secrets({"deletionToken", "writeKey"}))
GithubSpec == Struct(Secrets({"clientID", "clientSecret"}))
RedHatCustomerPortalSpec == Struct(Leaves({"realm"}, {}) @@ Secrets({"clientID", "clientSecret"}))
RedisSpec == Struct(Leaves({"queuesDSN"}, {}))
SMTPSpec ==
    Struct(Leaves({"address", "port", "authProtocol", "opensslVerifyMode",
                   "starttls", "starttlsAuto"}, {}) @@ Secrets({"user", "password"}))
SystemZyncSpec == Struct(Leaves({"endpoint"}, {}) @@ Secrets({"authToken"}))
SystemBackendSpec ==
    Struct(Leaves({"externalEndpoint", "internalEndpoint", "redisDSN"}, {})
           @@ Secrets({"internalAPIUser", "internalAPIPassword"}))
AssetsSpec ==
    Struct(Leaves({"bucket", "region", "host", "s3Endpoint"}, {})
           @@ Secrets({"accessKey", "secretKey"}))
SystemApicastEndpointsSpec ==
    Optional(Leaves({"stagingDomain", "productionDomain", "cloudHostedRegistryURL",
                     "selfManagedRegistryURL"}, {}))
SystemConfig ==
    Struct(Leaves({"memcachedServers"},
                  {"sandboxProxyOpensslVerifyMode", "forceSSL", "sslCertsDir",
                   "threescaleProviderPlan", "threescaleSuperdomain", "configFilesSecret"})
           @@ Secrets({"databaseDSN", "eventsSharedSecret", "secretKeyBase", "accessCode",
                       "databaseSecret", "mappingServiceAccessToken"})
           @@ [rails |-> SystemRailsSpec, searchServer |-> SearchServerSpec,
               externalSecret |-> ExternalSecret, recaptcha |-> SystemRecaptchaSpec,
               segment |-> SegmentSpec, github |-> GithubSpec,
               redhatCustomerPortal |-> RedHatCustomerPortalSpec, bugsnag |-> BugsnagSpec,
               redis |-> RedisSpec, smtp |-> SMTPSpec, zync |-> SystemZyncSpec,
               backend |-> SystemBackendSpec, assets |-> AssetsSpec,
               apicast |-> SystemApicastEndpointsSpec])

SystemAppSpec ==
    Struct(Scaled(systemDefaults.appHPA, systemDefaults.appPDB, systemDefaults.appResources,
                  systemDefaults.appLivenessProbe, systemDefaults.appReadinessProbe)
           @@ [deploymentStrategy |-> DeploymentStrategySpec(systemDefaults.appStrategy),
               terminationGracePeriodSeconds |-> Field(Fallback), canary |-> Canary,
               publishingStrategies |-> PublishingStrategies])
SidekiqConfig == Struct(Leaves({}, {"queues", "maxThreads"}))
SystemSidekiqSpec ==
    Struct(Scaled(systemSidekiqDefaults.hpa, systemSidekiqDefaults.pdb,
                  systemSidekiqDefaults.resources, systemSidekiqDefaults.livenessProbe,
                  systemSidekiqDefaults.readinessProbe)
           @@ [deploymentStrategy |-> DeploymentStrategySpec(systemSidekiqDefaults.strategy),
               terminationGracePeriodSeconds |-> Field(Fallback), canary |-> Canary,
               config |-> SidekiqConfig])
SearchdConfig ==
    Struct(Leaves({"databaseStorageClass"},
                  {"serviceName", "port", "databasePath", "databaseStorageSize"}))
SystemSearchdSpec ==
    Struct([enabled |-> Field(Fallback), image |-> ImageSpec(systemSearchdDefaults.image),
            config |-> SearchdConfig,
            resources |-> ResourceRequirementsSpec(systemSearchdDefaults.resources),
            livenessProbe |-> ProbeSpec(systemSearchdDefaults.livenessProbe),
            readinessProbe |-> ProbeSpec(systemSearchdDefaults.readinessProbe),
            terminationGracePeriodSeconds |-> Field(Fallback)] @@ Placement)
SystemRailsConsoleSpec ==
    Struct([image |-> ImageOfSpec,
            resources |-> ResourceRequirementsSpec(systemConsoleDefaults.resources)]
           @@ Placement)
SystemSpec ==
    [config |-> SystemConfig, image |-> ImageSpec(systemDefaults.image), app |-> SystemAppSpec,
     sidekiqDefault |-> SystemSidekiqSpec, sidekiqBilling |-> SystemSidekiqSpec,
     sidekiqLow |-> SystemSidekiqSpec, searchd |-> SystemSearchdSpec,
     console |-> SystemRailsConsoleSpec,
     grafanaDashboard |-> GrafanaDashboardSpec(systemDefaults.grafanaDashboard),
     twemproxy |-> TwemproxySpec]

-----------------------------------------------------------------------------
(* Zync.                                                                   *)

zyncDefaults ==
    [image |-> NameTagAndPolicy, grafanaDashboard |-> Selector,
     apiHPA |-> Scaling, apiPDB |-> MaxUnavailable, apiResources |-> RequestsAndLimits,
     apiLivenessProbe |-> EveryProbeField, apiReadinessProbe |-> EveryProbeField,
     queHPA |-> Scaling, quePDB |-> MaxUnavailable, queResources |-> RequestsAndLimits,
     queLivenessProbe |-> EveryProbeField, queReadinessProbe |-> EveryProbeField,
     consoleResources |-> RequestsAndLimits]

APISpec ==
    Struct(Scaled(zyncDefaults.apiHPA, zyncDefaults.apiPDB, zyncDefaults.apiResources,
                  zyncDefaults.apiLivenessProbe, zyncDefaults.apiReadinessProbe)
           @@ [publishingStrategies |-> UndefaultedStrategies])
QueSpec ==
    Struct(Scaled(zyncDefaults.queHPA, zyncDefaults.quePDB, zyncDefaults.queResources,
                  zyncDefaults.queLivenessProbe, zyncDefaults.queReadinessProbe))
ZyncRailsSpec == Struct(Leaves({}, {"environment", "logLevel", "maxThreads"}))
ZyncConfig ==
    Struct(Secrets({"databaseDSN", "secretKeyBase", "zyncAuthToken"})
           @@ [rails |-> ZyncRailsSpec, externalSecret |-> ExternalSecret,
               bugsnag |-> BugsnagSpec])
ZyncRailsConsoleSpec ==
    Struct([enabled |-> Field(Fallback), image |-> ImageOfSpec,
            resources |-> ResourceRequirementsSpec(zyncDefaults.consoleResources)] @@ Placement)
ZyncSpec ==
    [image |-> ImageSpec(zyncDefaults.image), config |-> ZyncConfig, api |-> APISpec,
     que |-> QueSpec, console |-> ZyncRailsConsoleSpec,
     grafanaDashboard |-> GrafanaDashboardSpec(zyncDefaults.grafanaDashboard)]

-----------------------------------------------------------------------------
(* Apicast, AutoSSL, MappingService, CORSProxy and EchoAPI.                *)

apicastDefaults ==
    [image |-> NameTagAndPolicy, hpa |-> Scaling, pdb |-> MaxUnavailable,
     resources |-> RequestsAndLimits, livenessProbe |-> EveryProbeField,
     readinessProbe |-> EveryProbeField, grafanaDashboard |-> Selector]
ApicastConfig ==
    Struct(Leaves({"configurationCache", "threescalePortalEndpoint"},
                  {"logLevel", "oidcLogLevel"}))
ApicastEnvironmentSpec ==
    Struct(Scaled(apicastDefaults.hpa, apicastDefaults.pdb, apicastDefaults.resources,
                  apicastDefaults.livenessProbe, apicastDefaults.readinessProbe)
           @@ [image |-> ImageSpec(apicastDefaults.image), config |-> ApicastConfig,
               canary |-> Canary, endpoint |-> Endpoint, marin3r |-> Marin3rSidecarSpec,
               publishingStrategies |-> PublishingStrategies,
               loadBalancer |-> ElasticLoadBalancerSpec])
ApicastSpec ==
    [staging |-> ApicastEnvironmentSpec, production |-> ApicastEnvironmentSpec,
     grafanaDashboard |-> GrafanaDashboardSpec(apicastDefaults.grafanaDashboard)]

autosslDefaults ==
    [image |-> NameTagAndPolicy, hpa |-> Scaling, pdb |-> MaxUnavailable,
     resources |-> RequestsAndLimits, probe |-> EveryProbeField, grafanaDashboard |-> Selector]
AutoSSLConfig ==
    Struct(Leaves({"contactEmail", "proxyEndpoint", "verificationEndpoint", "redisHost"},
                  {"logLevel", "acmeStaging", "redisPort", "domainWhitelist",
                   "domainBlacklist"}))
AutoSSLSpec ==
    Scaled(autosslDefaults.hpa, autosslDefaults.pdb, autosslDefaults.resources,
           autosslDefaults.probe, autosslDefaults.probe)
    @@ [image |-> ImageSpec(autosslDefaults.image), config |-> AutoSSLConfig,
        grafanaDashboard |-> GrafanaDashboardSpec(autosslDefaults.grafanaDashboard),
        canary |-> Canary, endpoint |-> Endpoint,
        publishingStrategies |-> PublishingStrategies,
        loadBalancer |-> ElasticLoadBalancerSpec]

mappingserviceDefaults ==
    [image |-> NameTagAndPolicy, hpa |-> Scaling, pdb |-> MaxUnavailable,
     resources |-> RequestsAndLimits, livenessProbe |-> EveryProbeField,
     readinessProbe |-> EveryProbeField, grafanaDashboard |-> Selector]
MappingServiceConfig ==
    Struct(Leaves({"apiHost", "previewBaseDomain"}, {"logLevel"})
           @@ Secrets({"systemAdminToken"}) @@ [externalSecret |-> ExternalSecret])
MappingServiceSpec ==
    Scaled(mappingserviceDefaults.hpa, mappingserviceDefaults.pdb,
           mappingserviceDefaults.resources, mappingserviceDefaults.livenessProbe,
           mappingserviceDefaults.readinessProbe)
    @@ [image |-> ImageSpec(mappingserviceDefaults.image), config |-> MappingServiceConfig,
        grafanaDashboard |-> GrafanaDashboardSpec(mappingserviceDefaults.grafanaDashboard),
        publishingStrategies |-> UndefaultedStrategies]

corsproxyDefaults ==
    [image |-> NameTagAndPolicy, hpa |-> Scaling, pdb |-> MaxUnavailable,
     resources |-> RequestsAndLimits, probe |-> EveryProbeField, grafanaDashboard |-> Selector]
CORSProxyConfig ==
    Struct(Secrets({"systemDatabaseDSN"}) @@ [externalSecret |-> ExternalSecret])
CORSProxySpec ==
    Scaled(corsproxyDefaults.hpa, corsproxyDefaults.pdb, corsproxyDefaults.resources,
           corsproxyDefaults.probe, corsproxyDefaults.probe)
    @@ [image |-> ImageSpec(corsproxyDefaults.image), config |-> CORSProxyConfig,
        grafanaDashboard |-> GrafanaDashboardSpec(corsproxyDefaults.grafanaDashboard),
        publishingStrategies |-> UndefaultedStrategies]

echoapiDefaults ==
    [image |-> NameTagAndPolicy, hpa |-> Scaling, pdb |-> MaxUnavailable,
     resources |-> RequestsAndLimits, livenessProbe |-> EveryProbeField,
     readinessProbe |-> EveryProbeField]
EchoAPISpec ==
    Scaled(echoapiDefaults.hpa, echoapiDefaults.pdb, echoapiDefaults.resources,
           echoapiDefaults.livenessProbe, echoapiDefaults.readinessProbe)
    @@ [image |-> ImageSpec(echoapiDefaults.image), endpoint |-> Endpoint,
        publishingStrategies |-> PublishingStrategies, marin3r |-> Marin3rSidecarSpec,
        loadBalancer |-> NetworkLoadBalancerSpec]

-----------------------------------------------------------------------------
(* Sentinel, RedisShard and TwemproxyConfig (whose list of server pools is *)
(* modelled in module TwemproxyConfig).                                    *)

sentinelDefaults ==
    [image |-> NameTagAndPolicy, resources |-> RequestsAndLimits, probe |-> EveryProbeField,
     pdb |-> MaxUnavailable, grafanaDashboard |-> Selector]
SentinelConfig ==
    Struct(Leaves({"monitoredShards", "clusterTopology", "storageClass"},
                  {"storageSize", "metricsRefreshInterval"}))
SentinelSpec ==
    [image |-> ImageSpec(sentinelDefaults.image), replicas |-> Field(Fallback),
     pdb |-> PodDisruptionBudgetSpec(sentinelDefaults.pdb),
     resources |-> ResourceRequirementsSpec(sentinelDefaults.resources),
     livenessProbe |-> ProbeSpec(sentinelDefaults.probe),
     readinessProbe |-> ProbeSpec(sentinelDefaults.probe),
     grafanaDashboard |-> GrafanaDashboardSpec(sentinelDefaults.grafanaDashboard),
     config |-> SentinelConfig] @@ Placement

redisShardDefaults == [image |-> NameTagAndPolicy]
RedisShardSpec ==
    [image |-> ImageSpec(redisShardDefaults.image)]
    @@ Leaves({}, {"masterIndex", "slaveCount", "command"})

twemproxyConfigDefaults == [grafanaDashboard |-> Selector]
TwemproxyConfigSpec ==
    [reconcileServerPools |-> Field(Fallback), sentinelURIs |-> Field(Nil),
     grafanaDashboard |-> GrafanaDashboardSpec(twemproxyConfigDefaults.grafanaDashboard)]

SpecOf ==
    [Backend |-> BackendSpec, System |-> SystemSpec, Zync |-> ZyncSpec,
     Apicast |-> ApicastSpec, AutoSSL |-> AutoSSLSpec, MappingService |-> MappingServiceSpec,
     CORSProxy |-> CORSProxySpec, EchoAPI |-> EchoAPISpec, Sentinel |-> SentinelSpec,
     RedisShard |-> RedisShardSpec, TwemproxyConfig |-> TwemproxyConfigSpec]
Kinds == DOMAIN SpecOf
=============================================================================
