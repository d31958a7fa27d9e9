------------------------------ MODULE Schemas ------------------------------
(***************************************************************************)
(* The schema types of iot.go that marshal themselves with MarshalJSON:    *)
(* their fields in order, with the tag and the kind that it looks at.      *)
(***************************************************************************)
EXTENDS Sequences

Scalar(n) == [name |-> n, tag |-> "omitempty", kind |-> "scalar"]
Pointer(n) == [name |-> n, tag |-> "omitempty", kind |-> "pointer"]
Slice(n) == [name |-> n, tag |-> "omitempty", kind |-> "slice"]
StringMap(n) == [name |-> n, tag |-> "omitempty", kind |-> "stringMap"]

(* A 64-bit integer, sent as text.                                         *)
Number(n) == [name |-> n, tag |-> "text", kind |-> "scalar"]

(* A tag without omitempty.                                                *)
Bare(n) == [name |-> n, tag |-> "bare", kind |-> "scalar"]

Hidden(n) == [name |-> n, tag |-> "ignored", kind |-> "slice"]
Lists == <<Hidden("ForceSendFields"), Hidden("NullFields")>>

(* A type that is only part of messages, and one that is an answer itself. *)
Part(fields) == fields \o Lists
Response(fields) == fields \o <<Hidden("ServerResponse")>> \o Lists

BindDeviceToGatewayRequest ==
    Part(<<Scalar("DeviceId"), Scalar("GatewayId")>>)

Binding == Part(<<Pointer("Condition"), Slice("Members"), Scalar("Role")>>)

Device ==
    Response(<<Bare("Blocked"), Pointer("Config"), Slice("Credentials"),
               Pointer("GatewayConfig"), Scalar("Id"),
               Scalar("LastConfigAckTime"), Scalar("LastConfigSendTime"),
               Pointer("LastErrorStatus"), Scalar("LastErrorTime"),
               Scalar("LastEventTime"), Scalar("LastHeartbeatTime"),
               Scalar("LastStateTime"), Scalar("LogLevel"),
               StringMap("Metadata"), Scalar("Name"), Number("NumId"),
               Pointer("State")>>)

DeviceConfig ==
    Response(<<Scalar("BinaryData"), Scalar("CloudUpdateTime"),
               Scalar("DeviceAckTime"), Number("Version")>>)

DeviceCredential == Part(<<Scalar("ExpirationTime"), Pointer("PublicKey")>>)

DeviceRegistry ==
    Response(<<Slice("Credentials"), Slice("EventNotificationConfigs"),
               Pointer("HttpConfig"), Scalar("Id"), Scalar("LogLevel"),
               Pointer("MqttConfig"), Scalar("Name"),
               Pointer("StateNotificationConfig")>>)

DeviceState == Part(<<Scalar("BinaryData"), Scalar("UpdateTime")>>)

EventNotificationConfig ==
    Part(<<Scalar("PubsubTopicName"), Scalar("SubfolderMatches")>>)

Expr ==
    Part(<<Scalar("Description"), Scalar("Expression"), Scalar("Location"),
           Scalar("Title")>>)

GatewayConfig ==
    Part(<<Scalar("GatewayAuthMethod"), Scalar("GatewayType"),
           Scalar("LastAccessedGatewayId"),
           Scalar("LastAccessedGatewayTime")>>)

GetIamPolicyRequest == Part(<<Pointer("Options")>>)

GetPolicyOptions == Part(<<Scalar("RequestedPolicyVersion")>>)

HttpConfig == Part(<<Scalar("HttpEnabledState")>>)

ListDeviceConfigVersionsResponse == Response(<<Slice("DeviceConfigs")>>)

ListDeviceRegistriesResponse ==
    Response(<<Slice("DeviceRegistries"), Scalar("NextPageToken")>>)

ListDeviceStatesResponse == Response(<<Slice("DeviceStates")>>)

ListDevicesResponse ==
    Response(<<Slice("Devices"), Scalar("NextPageToken")>>)

ModifyCloudToDeviceConfigRequest ==
    Part(<<Scalar("BinaryData"), Number("VersionToUpdate")>>)

MqttConfig == Part(<<Scalar("MqttEnabledState")>>)

Policy == Response(<<Slice("Bindings"), Scalar("Etag"), Scalar("Version")>>)

PublicKeyCertificate ==
    Part(<<Scalar("Certificate"), Scalar("Format"),
           Pointer("X509Details")>>)

PublicKeyCredential == Part(<<Scalar("Format"), Scalar("Key")>>)

RegistryCredential == Part(<<Pointer("PublicKeyCertificate")>>)

SendCommandToDeviceRequest ==
    Part(<<Scalar("BinaryData"), Scalar("Subfolder")>>)

SetIamPolicyRequest == Part(<<Pointer("Policy")>>)

StateNotificationConfig == Part(<<Scalar("PubsubTopicName")>>)

Status == Part(<<Scalar("Code"), Slice("Details"), Scalar("Message")>>)

TestIamPermissionsRequest == Part(<<Slice("Permissions")>>)

TestIamPermissionsResponse == Response(<<Slice("Permissions")>>)

UnbindDeviceFromGatewayRequest ==
    Part(<<Scalar("DeviceId"), Scalar("GatewayId")>>)

X509CertificateDetails ==
    Part(<<Scalar("ExpiryTime"), Scalar("Issuer"), Scalar("PublicKeyType"),
           Scalar("SignatureAlgorithm"), Scalar("StartTime"),
           Scalar("Subject")>>)

Schemas ==
    {BindDeviceToGatewayRequest, Binding, Device, DeviceConfig,
     DeviceCredential, DeviceRegistry, DeviceState, EventNotificationConfig,
     Expr, GatewayConfig, GetIamPolicyRequest, GetPolicyOptions, HttpConfig,
     ListDeviceConfigVersionsResponse, ListDeviceRegistriesResponse,
     ListDeviceStatesResponse, ListDevicesResponse,
     ModifyCloudToDeviceConfigRequest, MqttConfig, Policy,
     PublicKeyCertificate, PublicKeyCredential, RegistryCredential,
     SendCommandToDeviceRequest, SetIamPolicyRequest,
     StateNotificationConfig, Status, TestIamPermissionsRequest,
     TestIamPermissionsResponse, UnbindDeviceFromGatewayRequest,
     X509CertificateDetails}
=============================================================================
