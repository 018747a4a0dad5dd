SPECIFICATION FairSpec
CONSTANTS
  OctetBits = 2
  ListedNetworks <- MCListedNetworks
  ServiceSets = {{}, {"authd"}, {"dnsmasq"}, {"httpd", "authd", "apex-mesh"}}
  ToolSets = {{"dmidecode", "vmware-toolbox-cmd", "ifconfig", "ip"}, {"ip"}, {"vmware-toolbox-cmd"}}
  MaxHosts = 3
  Width = 4
  BDOOR_CMD_MAX = 8
  BDOOR_CMD_NESTING_CONTROL = 5
  BDOOR_CMD_GET_VCPU_INFO = 7
  Related = 2
  NESTING_CONTROL_QUERY = {1}
  VcpuFeatures = {0, 2}
  BDOOR_CMD_VCPU_HV_REPLAY_OK = 2
  BDOOR_CMD_VCPU_RESERVED = 3
INVARIANTS IInv TypeOK ScannedRange ScannedHosts OwnClass VerdictsOfImplemented
PROPERTY ReportEnds
CHECK_DEADLOCK FALSE
