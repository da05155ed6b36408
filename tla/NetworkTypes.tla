----------------------------- MODULE NetworkTypes ------------------------------
(* The kinds of the network. One set of fields per Go struct of            *)
(* zz_<kind>_types.go, and one object per kind.                            *)
EXTENDS Fields

-------------------------------------------------------------------------------
(* zz_vpc_types.go *)

VPCInitParameters ==
  Plain({"name", "tags", "timeout"}) \cup Fixed({"location"})
  \cup FixedRefs({"project_id"})
VPCObservation ==
  Plain({"id", "name", "tags", "timeout", "uri"})
  \cup Fixed({"location", "project_id"})
VPCParameters ==
  Plain({"name", "tags", "timeout"}) \cup Fixed({"location"})
  \cup FixedRefs({"project_id"})

VPC ==
  Object(VPCParameters, VPCInitParameters, VPCObservation,
         {"location", "name"})

-------------------------------------------------------------------------------
(* zz_subnet_types.go *)

RangeInitParameters == Plain({"count", "start"})
RoutesInitParameters == Plain({"address", "gateway"})
DHCPInitParameters ==
  Plain({"dns", "enabled"}) \cup Nest("range", RangeInitParameters)
  \cup NestList("routes", RoutesInitParameters)
RangeObservation == Plain({"count", "start"})
RoutesObservation == Plain({"address", "gateway"})
DHCPObservation ==
  Plain({"dns", "enabled"}) \cup Nest("range", RangeObservation)
  \cup NestList("routes", RoutesObservation)
RangeParameters == Plain({"count", "start"})
RoutesParameters == Plain({"address", "gateway"})
DHCPParameters ==
  Plain({"dns", "enabled"}) \cup Nest("range", RangeParameters)
  \cup NestList("routes", RoutesParameters)
SubnetNetworkInitParameters ==
  Plain({"address"}) \cup Nest("dhcp", DHCPInitParameters)
SubnetInitParameters ==
  Plain({"name", "tags", "timeout"}) \cup Fixed({"location", "type"})
  \cup FixedRefs({"project_id", "vpc_id"})
  \cup Nest("network", SubnetNetworkInitParameters)
SubnetNetworkObservation ==
  Plain({"address"}) \cup Nest("dhcp", DHCPObservation)
SubnetNetworkParameters == Plain({"address"}) \cup Nest("dhcp", DHCPParameters)
SubnetObservation ==
  Plain({"id", "name", "tags", "timeout", "uri"})
  \cup Fixed({"location", "project_id", "type", "vpc_id"})
  \cup Nest("network", SubnetNetworkObservation)
SubnetParameters ==
  Plain({"name", "tags", "timeout"}) \cup Fixed({"location", "type"})
  \cup FixedRefs({"project_id", "vpc_id"})
  \cup Nest("network", SubnetNetworkParameters)

Subnet ==
  Object(SubnetParameters, SubnetInitParameters, SubnetObservation,
         {"location", "name", "type"})

-------------------------------------------------------------------------------
(* zz_securitygroup_types.go *)

SecuritygroupInitParameters ==
  Plain({"name", "tags", "timeout"}) \cup Fixed({"location"})
  \cup FixedRefs({"project_id", "vpc_id"})
SecuritygroupObservation ==
  Plain({"id", "name", "tags", "timeout", "uri"})
  \cup Fixed({"location", "project_id", "vpc_id"})
SecuritygroupParameters ==
  Plain({"name", "tags", "timeout"}) \cup Fixed({"location"})
  \cup FixedRefs({"project_id", "vpc_id"})

Securitygroup ==
  Object(SecuritygroupParameters, SecuritygroupInitParameters,
         SecuritygroupObservation, {"location", "name"})

-------------------------------------------------------------------------------
(* zz_securityrule_types.go *)

TargetInitParameters == Fixed({"kind", "value"})
SecurityrulePropertiesInitParameters ==
  Fixed({"direction", "port", "protocol"})
  \cup Nest("target", TargetInitParameters)
SecurityruleInitParameters ==
  Plain({"name", "tags", "timeout"}) \cup Fixed({"location"})
  \cup FixedRefs({"project_id", "security_group_id", "vpc_id"})
  \cup Nest("properties", SecurityrulePropertiesInitParameters)
TargetObservation == Fixed({"kind", "value"})
SecurityrulePropertiesObservation ==
  Fixed({"direction", "port", "protocol"})
  \cup Nest("target", TargetObservation)
SecurityruleObservation ==
  Plain({"id", "name", "tags", "timeout", "uri"})
  \cup Fixed({"location", "project_id", "security_group_id", "vpc_id"})
  \cup Nest("properties", SecurityrulePropertiesObservation)
TargetParameters == Always(Fixed({"kind", "value"}))
SecurityrulePropertiesParameters ==
  Fixed({"port"}) \cup Always(Fixed({"direction", "protocol"}))
  \cup Nest("target", TargetParameters)
SecurityruleParameters ==
  Plain({"name", "tags", "timeout"}) \cup Fixed({"location"})
  \cup FixedRefs({"project_id", "security_group_id", "vpc_id"})
  \cup Nest("properties", SecurityrulePropertiesParameters)

Securityrule ==
  Object(SecurityruleParameters, SecurityruleInitParameters,
         SecurityruleObservation, {"location", "name", "properties"})

-------------------------------------------------------------------------------
(* zz_vpcpeering_types.go *)

VpcpeeringInitParameters ==
  Plain({"location", "name", "tags", "timeout"})
  \cup Refs({"peer_vpc", "project_id", "vpc_id"})
VpcpeeringObservation ==
  Plain({"id", "location", "name", "peer_vpc", "project_id", "tags",
          "timeout", "uri", "vpc_id"})
VpcpeeringParameters ==
  Plain({"location", "name", "tags", "timeout"})
  \cup Refs({"peer_vpc", "project_id", "vpc_id"})

Vpcpeering ==
  Object(VpcpeeringParameters, VpcpeeringInitParameters,
         VpcpeeringObservation, {"location", "name"})

-------------------------------------------------------------------------------
(* zz_vpcpeeringroute_types.go *)

VpcpeeringrouteInitParameters ==
  Plain({"billing_period", "local_network_address", "name",
          "remote_network_address", "tags", "timeout"})
  \cup Refs({"project_id", "vpc_id", "vpc_peering_id"})
VpcpeeringrouteObservation ==
  Plain({"billing_period", "id", "local_network_address", "name",
          "project_id", "remote_network_address", "tags", "timeout", "uri",
          "vpc_id", "vpc_peering_id"})
VpcpeeringrouteParameters ==
  Plain({"billing_period", "local_network_address", "name",
          "remote_network_address", "tags", "timeout"})
  \cup Refs({"project_id", "vpc_id", "vpc_peering_id"})

Vpcpeeringroute ==
  Object(VpcpeeringrouteParameters, VpcpeeringrouteInitParameters,
         VpcpeeringrouteObservation, {"billing_period",
         "local_network_address", "name", "remote_network_address"})

-------------------------------------------------------------------------------
(* zz_vpntunnel_types.go *)

EspInitParameters == Plain({"encryption", "hash", "lifetime", "pfs"})
EspObservation == Plain({"encryption", "hash", "lifetime", "pfs"})
EspParameters == Plain({"encryption", "hash", "lifetime", "pfs"})
PublicIPInitParameters == Refs({"id"})
IPConfigurationsSubnetInitParameters == Plain({"cidr"}) \cup Refs({"id"})
IPConfigurationsVPCInitParameters == Refs({"id"})
IPConfigurationsInitParameters ==
  Nest("public_ip", PublicIPInitParameters)
  \cup Nest("subnet", IPConfigurationsSubnetInitParameters)
  \cup Nest("vpc", IPConfigurationsVPCInitParameters)
PublicIPObservation == Plain({"id"})
IPConfigurationsSubnetObservation == Plain({"cidr", "id"})
IPConfigurationsVPCObservation == Plain({"id"})
IPConfigurationsObservation ==
  Nest("public_ip", PublicIPObservation)
  \cup Nest("subnet", IPConfigurationsSubnetObservation)
  \cup Nest("vpc", IPConfigurationsVPCObservation)
PublicIPParameters == Refs({"id"})
IPConfigurationsSubnetParameters == Plain({"cidr"}) \cup Refs({"id"})
IPConfigurationsVPCParameters == Refs({"id"})
IPConfigurationsParameters ==
  Nest("public_ip", PublicIPParameters)
  \cup Nest("subnet", IPConfigurationsSubnetParameters)
  \cup Nest("vpc", IPConfigurationsVPCParameters)
IkeInitParameters ==
  Plain({"dh_group", "dpd_action", "dpd_interval", "dpd_timeout",
          "encryption", "hash", "lifetime"})
IkeObservation ==
  Plain({"dh_group", "dpd_action", "dpd_interval", "dpd_timeout",
          "encryption", "hash", "lifetime"})
IkeParameters ==
  Plain({"dh_group", "dpd_action", "dpd_interval", "dpd_timeout",
          "encryption", "hash", "lifetime"})
PskInitParameters == Plain({"cloud_site", "on_prem_site", "secret"})
PskObservation == Plain({"cloud_site", "on_prem_site", "secret"})
PskParameters == Plain({"cloud_site", "on_prem_site", "secret"})
VPNClientSettingsInitParameters ==
  Plain({"peer_client_public_ip"}) \cup Nest("esp", EspInitParameters)
  \cup Nest("ike", IkeInitParameters) \cup Nest("psk", PskInitParameters)
VPNClientSettingsObservation ==
  Plain({"peer_client_public_ip"}) \cup Nest("esp", EspObservation)
  \cup Nest("ike", IkeObservation) \cup Nest("psk", PskObservation)
VPNClientSettingsParameters ==
  Plain({"peer_client_public_ip"}) \cup Nest("esp", EspParameters)
  \cup Nest("ike", IkeParameters) \cup Nest("psk", PskParameters)
VpntunnelPropertiesInitParameters ==
  Plain({"billing_period", "vpn_client_protocol", "vpn_type"})
  \cup Nest("ip_configurations", IPConfigurationsInitParameters)
  \cup Nest("vpn_client_settings", VPNClientSettingsInitParameters)
VpntunnelInitParameters ==
  Plain({"location", "name", "tags", "timeout"}) \cup Refs({"project_id"})
  \cup Nest("properties", VpntunnelPropertiesInitParameters)
VpntunnelPropertiesObservation ==
  Plain({"billing_period", "vpn_client_protocol", "vpn_type"})
  \cup Nest("ip_configurations", IPConfigurationsObservation)
  \cup Nest("vpn_client_settings", VPNClientSettingsObservation)
VpntunnelObservation ==
  Plain({"id", "location", "name", "project_id", "tags", "timeout", "uri"})
  \cup Nest("properties", VpntunnelPropertiesObservation)
VpntunnelPropertiesParameters ==
  Plain({"billing_period", "vpn_client_protocol", "vpn_type"})
  \cup Nest("ip_configurations", IPConfigurationsParameters)
  \cup Nest("vpn_client_settings", VPNClientSettingsParameters)
VpntunnelParameters ==
  Plain({"location", "name", "tags", "timeout"}) \cup Refs({"project_id"})
  \cup Nest("properties", VpntunnelPropertiesParameters)

Vpntunnel ==
  Object(VpntunnelParameters, VpntunnelInitParameters,
         VpntunnelObservation, {"location", "name", "properties"})

-------------------------------------------------------------------------------
(* zz_vpnroute_types.go *)

VpnroutePropertiesInitParameters == Plain({"cloud_subnet", "on_prem_subnet"})
VpnrouteInitParameters ==
  Plain({"location", "name", "tags", "timeout"})
  \cup Refs({"project_id", "vpn_tunnel_id"})
  \cup Nest("properties", VpnroutePropertiesInitParameters)
VpnroutePropertiesObservation == Plain({"cloud_subnet", "on_prem_subnet"})
VpnrouteObservation ==
  Plain({"id", "location", "name", "project_id", "tags", "timeout", "uri",
          "vpn_tunnel_id"})
  \cup Nest("properties", VpnroutePropertiesObservation)
VpnroutePropertiesParameters ==
  Always(Plain({"cloud_subnet", "on_prem_subnet"}))
VpnrouteParameters ==
  Plain({"location", "name", "tags", "timeout"})
  \cup Refs({"project_id", "vpn_tunnel_id"})
  \cup Nest("properties", VpnroutePropertiesParameters)

Vpnroute ==
  Object(VpnrouteParameters, VpnrouteInitParameters,
         VpnrouteObservation, {"location", "name", "properties"})

===============================================================================
