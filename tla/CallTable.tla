----------------------------- MODULE CallTable -----------------------------
(***************************************************************************)
(* The API calls of iot.go, one definition each: what its builder and its  *)
(* doRequest make of the resource name and of the options.                 *)
(*                                                                         *)
(*   verb       HTTP method                                                *)
(*   endpoint   last segment of the webhook URL                            *)
(*   resource   kind of name it takes: "location", "registry" or "device"  *)
(*   account    whose credentials it uses: "service", read from the        *)
(*              Service, or "registry", from GetRegistryCredentials for    *)
(*              the registry matched in the name                           *)
(*   nameParam  URL parameter that carries the name, "" if none does       *)
(*   method     value of the URL parameter "method", "" if absent          *)
(*   content    it has a request body to marshal                           *)
(*   decodes    it decodes the response body                               *)
(*   built      FALSE: doRequest returns "Not implemented"                 *)
(*   reach      setters whose argument gets into the request               *)
(*   lost       setters that accept an argument and drop it                *)
(***************************************************************************)
EXTENDS Naturals

OverRegistry ==
    [verb |-> "GET", endpoint |-> "cloudiot", resource |-> "registry",
     account |-> "registry", nameParam |-> "", method |-> "",
     content |-> FALSE, decodes |-> TRUE, built |-> TRUE,
     reach |-> {"Header"}, lost |-> {"Fields"}]

OverLocation ==
    [OverRegistry EXCEPT !.resource = "location", !.account = "service",
                         !.nameParam = "parent"]

OverDevice ==
    [OverRegistry EXCEPT !.resource = "device", !.endpoint = "cloudiot_devices",
                         !.nameParam = "name"]

Unbuilt == [OverRegistry EXCEPT !.built = FALSE]

(* Setters that choose and page through the devices of a list.             *)
DeviceListSetters ==
    {"DeviceIds", "DeviceNumIds", "FieldMask",
     "GatewayListOptionsAssociationsDeviceId",
     "GatewayListOptionsAssociationsGatewayId",
     "GatewayListOptionsGatewayType", "PageSize", "PageToken", "IfNoneMatch"}

(***************************************************************************)
(* Registries.                                                             *)
(***************************************************************************)
RegistriesBindDeviceToGateway ==
    [OverRegistry EXCEPT !.verb = "POST", !.method = "bindDeviceToGateway",
                         !.content = TRUE]

RegistriesCreate ==
    [OverLocation EXCEPT !.verb = "POST", !.content = TRUE]

(* Mutant: delete with the credentials of the registry itself.             *)
RegistriesDeleteOwnAccount ==
    [OverRegistry EXCEPT !.verb = "DELETE", !.nameParam = "name", !.decodes = FALSE]

RegistriesDelete ==
    [OverRegistry EXCEPT !.verb = "DELETE", !.account = "service",
                         !.nameParam = "name", !.decodes = FALSE]

RegistriesGet ==
    [OverRegistry EXCEPT !.reach = @ \cup {"IfNoneMatch"}]

RegistriesGetIamPolicy == Unbuilt

RegistriesList ==
    [OverLocation EXCEPT
        !.reach = @ \cup {"PageSize", "PageToken", "Fields", "IfNoneMatch"},
        !.lost = {}]

RegistriesPatch ==
    [OverRegistry EXCEPT !.verb = "PATCH", !.nameParam = "name", !.content = TRUE,
                         !.reach = @ \cup {"UpdateMask"}]

RegistriesSetIamPolicy ==
    [Unbuilt EXCEPT !.reach = @ \cup {"Fields"}, !.lost = {}]

RegistriesTestIamPermissions ==
    [Unbuilt EXCEPT !.reach = @ \cup {"Fields"}, !.lost = {}]

RegistriesUnbindDeviceFromGateway ==
    [OverRegistry EXCEPT !.verb = "POST", !.method = "unbindDeviceFromGateway",
                         !.content = TRUE]

(***************************************************************************)
(* Devices.                                                                *)
(***************************************************************************)
(* Header returns a map that nobody keeps.                                 *)
DevicesCreate ==
    [OverRegistry EXCEPT !.verb = "POST", !.endpoint = "cloudiot_devices",
                         !.content = TRUE, !.reach = {}, !.lost = @ \cup {"Header"}]

DevicesDelete ==
    [OverDevice EXCEPT !.verb = "DELETE", !.decodes = FALSE]

(* Mutant: doRequest forgets to set the parameter "name".                  *)
DevicesGetNameless ==
    [OverDevice EXCEPT !.nameParam = "", !.reach = @ \cup {"Base64Encode"},
                       !.lost = @ \cup {"FieldMask", "IfNoneMatch"}]

DevicesGet ==
    [OverDevice EXCEPT !.reach = @ \cup {"Base64Encode"},
                       !.lost = @ \cup {"FieldMask", "IfNoneMatch"}]

DevicesList ==
    [OverRegistry EXCEPT !.endpoint = "cloudiot_devices", !.nameParam = "parent",
                         !.reach = @ \cup DeviceListSetters \cup {"Fields"},
                         !.lost = {}]

DevicesModifyCloudToDeviceConfig ==
    [OverDevice EXCEPT !.verb = "POST", !.method = "modifyCloudToDeviceConfig",
                       !.content = TRUE, !.reach = @ \cup {"Fields"}, !.lost = {}]

DevicesPatch ==
    [OverDevice EXCEPT !.verb = "PATCH", !.content = TRUE,
                       !.reach = @ \cup {"UpdateMask"}]

DevicesSendCommandToDevice ==
    [OverDevice EXCEPT !.verb = "POST", !.method = "sendCommandToDevice",
                       !.content = TRUE]

DevicesConfigVersionsList ==
    [OverDevice EXCEPT !.endpoint = "cloudiot_devices_configVersions",
                       !.reach = @ \cup {"NumVersions", "IfNoneMatch"}]

DevicesStatesList ==
    [OverDevice EXCEPT !.endpoint = "cloudiot_devices_states",
                       !.reach = @ \cup {"NumStates", "Base64Encode", "IfNoneMatch"}]

(***************************************************************************)
(* Groups: built like the others, sent by none.                            *)
(***************************************************************************)
GroupsGetIamPolicy ==
    [Unbuilt EXCEPT !.reach = @ \cup {"Fields"}, !.lost = {}]

GroupsSetIamPolicy ==
    [Unbuilt EXCEPT !.reach = @ \cup {"Fields"}, !.lost = {}]

GroupsTestIamPermissions ==
    [Unbuilt EXCEPT !.reach = @ \cup {"Fields"}, !.lost = {}]

GroupsDevicesList ==
    [Unbuilt EXCEPT !.reach = @ \cup DeviceListSetters \cup {"Fields"}, !.lost = {}]

(***************************************************************************)
(* All of them, by the last part of their method id.                       *)
(***************************************************************************)
CallTable ==
    [bindDeviceToGateway |-> RegistriesBindDeviceToGateway,
     create |-> RegistriesCreate,
     delete |-> RegistriesDelete,
     get |-> RegistriesGet,
     getIamPolicy |-> RegistriesGetIamPolicy,
     list |-> RegistriesList,
     patch |-> RegistriesPatch,
     setIamPolicy |-> RegistriesSetIamPolicy,
     testIamPermissions |-> RegistriesTestIamPermissions,
     unbindDeviceFromGateway |-> RegistriesUnbindDeviceFromGateway,
     devicesCreate |-> DevicesCreate,
     devicesDelete |-> DevicesDelete,
     devicesGet |-> DevicesGet,
     devicesList |-> DevicesList,
     devicesModifyCloudToDeviceConfig |-> DevicesModifyCloudToDeviceConfig,
     devicesPatch |-> DevicesPatch,
     devicesSendCommandToDevice |-> DevicesSendCommandToDevice,
     devicesConfigVersionsList |-> DevicesConfigVersionsList,
     devicesStatesList |-> DevicesStatesList,
     groupsGetIamPolicy |-> GroupsGetIamPolicy,
     groupsSetIamPolicy |-> GroupsSetIamPolicy,
     groupsTestIamPermissions |-> GroupsTestIamPermissions,
     groupsDevicesList |-> GroupsDevicesList]

CallIds == DOMAIN CallTable
=============================================================================
