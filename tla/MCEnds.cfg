\* Kernel: two socket addresses, one of them perhaps in use when the probe is
\* attached, and four state changes; tables of one entry, so one
\* connection evicts the other's start, and a ring of one record, which may be full;
\* one suspend may fall between the kernel's stamp and the agent's read.
\* Resolver: two addresses for two pods on two nodes and one pod on the host network;
\* four changes let an address pass from one pod to another behind a Service.
\* The two addresses are symmetric: only the set PodIP names them, and no run of this
\* instance checks liveness.
\* Page: two windows, two comparisons or none; five requests supersede one another.
CONSTANTS
  NumSocks = 2
  MaxChanges = 4
  TickSize = 3
  MaxMono = 1
  MaxSleep = 1
  StartsSize = 1
  RingSize = 1
  Micro = 2
  OpensSize = 1
  ClosesSize = 1
  Bytes = {0, 1}
  Pod = {"web", "job", "etcd"}
  PodInfo <- MCPodInfo
  ReplicaSet = {"rs"}
  DeploymentOf <- MCDeploymentOf
  Service = {"svc"}
  ClusterIP <- MCClusterIP
  Selects <- MCSelects
  NodeName = {"n1", "n2"}
  NodeIP <- MCNodeIP
  a = a
  b = b
  PodIP = {a, b}
  Elsewhere = {"world"}
  RangeOf <- MCRangeOf
  MaxEvents = 4
  ViewQuery = {1, 2}
  Comparison = {0, 1, 2}
  MaxLoads = 5
  MaxVersion = 2
SYMMETRY Addresses
SPECIFICATION MCSpec
INVARIANTS
  EndsTypeOK
  TimesAreOwn
  OneEventPerOutcome
  TotalsOnce
  CaughtUpIsExact
  NeverInvented
  
  
CHECK_DEADLOCK FALSE
