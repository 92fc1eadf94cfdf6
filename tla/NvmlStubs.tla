----------------------------- MODULE NvmlStubs -----------------------------
(*****************************************************************************)
(* The generated NVML stubs of the client, codegen/gen_nvml_client.inc, each *)
(* with the exported function that picks its connection and calls it.        *)
(*****************************************************************************)
EXTENDS RpcFields

nvmlSystemGetDriverVersion ==
  With([length : Cnt],
  Call("connection", <<F("length", "unsigned int")>>,
    <<Arr("version", "char", {"length"}), F("return_value", "nvmlReturn_t")>>))

nvmlSystemGetNVMLVersion ==
  With([length : Cnt],
  Call("connection", <<F("length", "unsigned int")>>,
    <<Arr("version", "char", {"length"}), F("return_value", "nvmlReturn_t")>>))

nvmlSystemGetCudaDriverVersion ==
  Call("connection", <<>>, <<F("cudaDriverVersion", "int"), F("return_value", "nvmlReturn_t")>>)

nvmlSystemGetCudaDriverVersion_v2 ==
  Call("connection", <<>>, <<F("cudaDriverVersion", "int"), F("return_value", "nvmlReturn_t")>>)

nvmlDeviceGetHandleByUUID ==
  With([uuid_len : Len1],
  Call("caller", <<F("uuid_len", "unsigned int"), Arr("uuid", "byte", {"uuid_len"})>>,
    <<F("device", "nvmlDevice_t"), F("return_value", "nvmlReturn_t")>>))

nvmlDeviceGetHandleByPciBusId_v2 ==
  With([pciBusId_len : Len1],
  Call("caller", <<F("pciBusId_len", "unsigned int"), Arr("pciBusId", "byte", {"pciBusId_len"})>>,
    <<F("device", "nvmlDevice_t"), F("return_value", "nvmlReturn_t")>>))

nvmlDeviceGetUUID ==
  With([length : Cnt],
  Call("connection_for_device", <<F("device", "nvmlDevice_t"), F("length", "unsigned int")>>,
    <<Arr("uuid", "char", {"length"}), F("return_value", "nvmlReturn_t")>>))

nvmlDeviceGetMinorNumber ==
  Call("connection_for_device", <<F("device", "nvmlDevice_t")>>,
    <<F("minorNumber", "unsigned int"), F("return_value", "nvmlReturn_t")>>)

nvmlDeviceGetPciInfo_v3 ==
  Call("connection_for_device", <<F("device", "nvmlDevice_t")>>,
    <<F("pci", "nvmlPciInfo_t"), F("return_value", "nvmlReturn_t")>>)

nvmlDeviceGetMemoryInfo ==
  Call("connection_for_device", <<F("device", "nvmlDevice_t")>>,
    <<F("memory", "nvmlMemory_t"), F("return_value", "nvmlReturn_t")>>)

nvmlDeviceGetUtilizationRates ==
  Call("connection_for_device", <<F("device", "nvmlDevice_t")>>,
    <<F("utilization", "nvmlUtilization_t"), F("return_value", "nvmlReturn_t")>>)

nvmlDeviceGetTemperature ==
  Call("connection_for_device", <<F("device", "nvmlDevice_t"),
      F("sensorType", "nvmlTemperatureSensors_t")>>,
    <<F("temp", "unsigned int"), F("return_value", "nvmlReturn_t")>>)

nvmlDeviceGetPowerUsage ==
  Call("connection_for_device", <<F("device", "nvmlDevice_t")>>,
    <<F("power", "unsigned int"), F("return_value", "nvmlReturn_t")>>)

nvmlDeviceGetPowerManagementLimit ==
  Call("connection_for_device", <<F("device", "nvmlDevice_t")>>,
    <<F("limit", "unsigned int"), F("return_value", "nvmlReturn_t")>>)

nvmlDeviceGetClockInfo ==
  Call("connection_for_device", <<F("device", "nvmlDevice_t"), F("type", "nvmlClockType_t")>>,
    <<F("clock", "unsigned int"), F("return_value", "nvmlReturn_t")>>)

nvmlDeviceGetMaxClockInfo ==
  Call("connection_for_device", <<F("device", "nvmlDevice_t"), F("type", "nvmlClockType_t")>>,
    <<F("clock", "unsigned int"), F("return_value", "nvmlReturn_t")>>)

nvmlDeviceGetPerformanceState ==
  Call("connection_for_device", <<F("device", "nvmlDevice_t")>>,
    <<F("pState", "nvmlPstates_t"), F("return_value", "nvmlReturn_t")>>)

nvmlDeviceGetComputeMode ==
  Call("connection_for_device", <<F("device", "nvmlDevice_t")>>,
    <<F("mode", "nvmlComputeMode_t"), F("return_value", "nvmlReturn_t")>>)

nvmlDeviceGetPersistenceMode ==
  Call("connection_for_device", <<F("device", "nvmlDevice_t")>>,
    <<F("mode", "nvmlEnableState_t"), F("return_value", "nvmlReturn_t")>>)

nvmlDeviceGetFanSpeed ==
  Call("connection_for_device", <<F("device", "nvmlDevice_t")>>,
    <<F("speed", "unsigned int"), F("return_value", "nvmlReturn_t")>>)

nvmlDeviceGetBrand ==
  Call("connection_for_device", <<F("device", "nvmlDevice_t")>>,
    <<F("type", "nvmlBrandType_t"), F("return_value", "nvmlReturn_t")>>)

nvmlDeviceGetVbiosVersion ==
  With([length : Cnt],
  Call("connection_for_device", <<F("device", "nvmlDevice_t"), F("length", "unsigned int")>>,
    <<Arr("version", "char", {"length"}), F("return_value", "nvmlReturn_t")>>))

nvmlDeviceGetSerial ==
  With([length : Cnt],
  Call("connection_for_device", <<F("device", "nvmlDevice_t"), F("length", "unsigned int")>>,
    <<Arr("serial", "char", {"length"}), F("return_value", "nvmlReturn_t")>>))

nvmlDeviceGetBoardPartNumber ==
  With([length : Cnt],
  Call("connection_for_device", <<F("device", "nvmlDevice_t"), F("length", "unsigned int")>>,
    <<Arr("partNumber", "char", {"length"}), F("return_value", "nvmlReturn_t")>>))

nvmlDeviceGetDisplayMode ==
  Call("connection_for_device", <<F("device", "nvmlDevice_t")>>,
    <<F("display", "nvmlEnableState_t"), F("return_value", "nvmlReturn_t")>>)

nvmlDeviceGetDisplayActive ==
  Call("connection_for_device", <<F("device", "nvmlDevice_t")>>,
    <<F("isActive", "nvmlEnableState_t"), F("return_value", "nvmlReturn_t")>>)

nvmlDeviceGetCurrPcieLinkGeneration ==
  Call("connection_for_device", <<F("device", "nvmlDevice_t")>>,
    <<F("currLinkGen", "unsigned int"), F("return_value", "nvmlReturn_t")>>)

nvmlDeviceGetCurrPcieLinkWidth ==
  Call("connection_for_device", <<F("device", "nvmlDevice_t")>>,
    <<F("currLinkWidth", "unsigned int"), F("return_value", "nvmlReturn_t")>>)

nvmlDeviceGetMaxPcieLinkGeneration ==
  Call("connection_for_device", <<F("device", "nvmlDevice_t")>>,
    <<F("maxLinkGen", "unsigned int"), F("return_value", "nvmlReturn_t")>>)

nvmlDeviceGetMaxPcieLinkWidth ==
  Call("connection_for_device", <<F("device", "nvmlDevice_t")>>,
    <<F("maxLinkWidth", "unsigned int"), F("return_value", "nvmlReturn_t")>>)

nvmlDeviceGetPcieThroughput ==
  Call("connection_for_device", <<F("device", "nvmlDevice_t"),
      F("counter", "nvmlPcieUtilCounter_t")>>,
    <<F("value", "unsigned int"), F("return_value", "nvmlReturn_t")>>)

nvmlDeviceGetPcieReplayCounter ==
  Call("connection_for_device", <<F("device", "nvmlDevice_t")>>,
    <<F("value", "unsigned int"), F("return_value", "nvmlReturn_t")>>)

nvmlDeviceGetComputeRunningProcesses ==
  With({a \in [infoCount_requested : Cnt, infos_null : Flag] :
      a.infos_null = 1 => a.infoCount_requested = 0},
  Call("connection_for_device", <<F("device", "nvmlDevice_t"),
      F("infoCount_requested", "unsigned int"), F("infos_null", "uint8_t")>>,
    <<F("infoCount", "unsigned int"), F("infos_has_data", "uint8_t"),
        Expect("infos_has_data", "infos_null", "infoCount", "infoCount_requested"),
        ArrIf("infos_has_data", "infos", "nvmlProcessInfo_v1_t", {"infoCount"}),
        F("return_value", "nvmlReturn_t")>>))

nvmlDeviceGetComputeRunningProcesses_v2 ==
  With({a \in [infoCount_requested : Cnt, infos_null : Flag] :
      a.infos_null = 1 => a.infoCount_requested = 0},
  Call("connection_for_device", <<F("device", "nvmlDevice_t"),
      F("infoCount_requested", "unsigned int"), F("infos_null", "uint8_t")>>,
    <<F("infoCount", "unsigned int"), F("infos_has_data", "uint8_t"),
        Expect("infos_has_data", "infos_null", "infoCount", "infoCount_requested"),
        ArrIf("infos_has_data", "infos", "nvmlProcessInfo_v2_t", {"infoCount"}),
        F("return_value", "nvmlReturn_t")>>))

nvmlDeviceGetComputeRunningProcesses_v3 ==
  With({a \in [infoCount_requested : Cnt, infos_null : Flag] :
      a.infos_null = 1 => a.infoCount_requested = 0},
  Call("connection_for_device", <<F("device", "nvmlDevice_t"),
      F("infoCount_requested", "unsigned int"), F("infos_null", "uint8_t")>>,
    <<F("infoCount", "unsigned int"), F("infos_has_data", "uint8_t"),
        Expect("infos_has_data", "infos_null", "infoCount", "infoCount_requested"),
        ArrIf("infos_has_data", "infos", "nvmlProcessInfo_t", {"infoCount"}),
        F("return_value", "nvmlReturn_t")>>))

nvmlDeviceGetProcessUtilization ==
  With({a \in [processSamplesCount_requested : Cnt, utilization_null : Flag] :
      a.utilization_null = 1 => a.processSamplesCount_requested = 0},
  Call("connection_for_device", <<F("device", "nvmlDevice_t"),
      F("processSamplesCount_requested", "unsigned int"), F("utilization_null", "uint8_t"),
      F("lastSeenTimeStamp", "unsigned long long")>>,
    <<F("processSamplesCount", "unsigned int"), F("utilization_has_data", "uint8_t"),
        Expect("utilization_has_data", "utilization_null", "processSamplesCount", "processSamplesCount_requested"),
        ArrIf("utilization_has_data", "utilization", "nvmlProcessUtilizationSample_t",
            {"processSamplesCount"}),
        F("return_value", "nvmlReturn_t")>>))

nvmlDeviceGetGraphicsRunningProcesses ==
  With({a \in [infoCount_requested : Cnt, infos_null : Flag] :
      a.infos_null = 1 => a.infoCount_requested = 0},
  Call("connection_for_device", <<F("device", "nvmlDevice_t"),
      F("infoCount_requested", "unsigned int"), F("infos_null", "uint8_t")>>,
    <<F("infoCount", "unsigned int"), F("infos_has_data", "uint8_t"),
        Expect("infos_has_data", "infos_null", "infoCount", "infoCount_requested"),
        ArrIf("infos_has_data", "infos", "nvmlProcessInfo_v1_t", {"infoCount"}),
        F("return_value", "nvmlReturn_t")>>))

nvmlDeviceGetGraphicsRunningProcesses_v2 ==
  With({a \in [infoCount_requested : Cnt, infos_null : Flag] :
      a.infos_null = 1 => a.infoCount_requested = 0},
  Call("connection_for_device", <<F("device", "nvmlDevice_t"),
      F("infoCount_requested", "unsigned int"), F("infos_null", "uint8_t")>>,
    <<F("infoCount", "unsigned int"), F("infos_has_data", "uint8_t"),
        Expect("infos_has_data", "infos_null", "infoCount", "infoCount_requested"),
        ArrIf("infos_has_data", "infos", "nvmlProcessInfo_v2_t", {"infoCount"}),
        F("return_value", "nvmlReturn_t")>>))

nvmlDeviceGetGraphicsRunningProcesses_v3 ==
  With({a \in [infoCount_requested : Cnt, infos_null : Flag] :
      a.infos_null = 1 => a.infoCount_requested = 0},
  Call("connection_for_device", <<F("device", "nvmlDevice_t"),
      F("infoCount_requested", "unsigned int"), F("infos_null", "uint8_t")>>,
    <<F("infoCount", "unsigned int"), F("infos_has_data", "uint8_t"),
        Expect("infos_has_data", "infos_null", "infoCount", "infoCount_requested"),
        ArrIf("infos_has_data", "infos", "nvmlProcessInfo_t", {"infoCount"}),
        F("return_value", "nvmlReturn_t")>>))

nvmlDeviceGetMPSComputeRunningProcesses ==
  With({a \in [infoCount_requested : Cnt, infos_null : Flag] :
      a.infos_null = 1 => a.infoCount_requested = 0},
  Call("connection_for_device", <<F("device", "nvmlDevice_t"),
      F("infoCount_requested", "unsigned int"), F("infos_null", "uint8_t")>>,
    <<F("infoCount", "unsigned int"), F("infos_has_data", "uint8_t"),
        Expect("infos_has_data", "infos_null", "infoCount", "infoCount_requested"),
        ArrIf("infos_has_data", "infos", "nvmlProcessInfo_v1_t", {"infoCount"}),
        F("return_value", "nvmlReturn_t")>>))

nvmlDeviceGetMPSComputeRunningProcesses_v2 ==
  With({a \in [infoCount_requested : Cnt, infos_null : Flag] :
      a.infos_null = 1 => a.infoCount_requested = 0},
  Call("connection_for_device", <<F("device", "nvmlDevice_t"),
      F("infoCount_requested", "unsigned int"), F("infos_null", "uint8_t")>>,
    <<F("infoCount", "unsigned int"), F("infos_has_data", "uint8_t"),
        Expect("infos_has_data", "infos_null", "infoCount", "infoCount_requested"),
        ArrIf("infos_has_data", "infos", "nvmlProcessInfo_v2_t", {"infoCount"}),
        F("return_value", "nvmlReturn_t")>>))

nvmlDeviceGetMPSComputeRunningProcesses_v3 ==
  With({a \in [infoCount_requested : Cnt, infos_null : Flag] :
      a.infos_null = 1 => a.infoCount_requested = 0},
  Call("connection_for_device", <<F("device", "nvmlDevice_t"),
      F("infoCount_requested", "unsigned int"), F("infos_null", "uint8_t")>>,
    <<F("infoCount", "unsigned int"), F("infos_has_data", "uint8_t"),
        Expect("infos_has_data", "infos_null", "infoCount", "infoCount_requested"),
        ArrIf("infos_has_data", "infos", "nvmlProcessInfo_t", {"infoCount"}),
        F("return_value", "nvmlReturn_t")>>))

nvmlDeviceGetMaxMigDeviceCount ==
  Call("connection_for_device", <<F("device", "nvmlDevice_t")>>,
    <<F("count", "unsigned int"), F("return_value", "nvmlReturn_t")>>)

nvmlDeviceGetTotalEccErrors ==
  Call("connection_for_device", <<F("device", "nvmlDevice_t"),
      F("errorType", "nvmlMemoryErrorType_t"), F("counterType", "nvmlEccCounterType_t")>>,
    <<F("eccCounts", "unsigned long long"), F("return_value", "nvmlReturn_t")>>)

nvmlDeviceGetDetailedEccErrors ==
  Call("connection_for_device", <<F("device", "nvmlDevice_t"),
      F("errorType", "nvmlMemoryErrorType_t"), F("counterType", "nvmlEccCounterType_t")>>,
    <<F("eccCounts", "nvmlEccErrorCounts_t"), F("return_value", "nvmlReturn_t")>>)

nvmlDeviceGetMemoryErrorCounter ==
  Call("connection_for_device", <<F("device", "nvmlDevice_t"),
      F("errorType", "nvmlMemoryErrorType_t"), F("counterType", "nvmlEccCounterType_t"),
      F("locationType", "nvmlMemoryLocation_t")>>,
    <<F("count", "unsigned long long"), F("return_value", "nvmlReturn_t")>>)

nvmlDeviceGetEccMode ==
  Call("connection_for_device", <<F("device", "nvmlDevice_t")>>,
    <<F("current", "nvmlEnableState_t"), F("pending", "nvmlEnableState_t"),
        F("return_value", "nvmlReturn_t")>>)

nvmlDeviceGetTemperatureV ==
  Call("connection_for_device", <<F("device", "nvmlDevice_t"),
      F("temperature", "lupine_nvmlTemperature_t")>>,
    <<F("temperature", "lupine_nvmlTemperature_t"), F("return_value", "nvmlReturn_t")>>)

nvmlDeviceGetEnforcedPowerLimit ==
  Call("connection_for_device", <<F("device", "nvmlDevice_t")>>,
    <<F("limit", "unsigned int"), F("return_value", "nvmlReturn_t")>>)

nvmlDeviceGetMemoryInfo_v2 ==
  Call("connection_for_device", <<F("device", "nvmlDevice_t"), F("memory", "nvmlMemory_v2_t")>>,
    <<F("memory", "nvmlMemory_v2_t"), F("return_value", "nvmlReturn_t")>>)

nvmlDeviceGetMigMode ==
  Call("connection_for_device", <<F("device", "nvmlDevice_t")>>,
    <<F("currentMode", "unsigned int"), F("pendingMode", "unsigned int"),
        F("return_value", "nvmlReturn_t")>>)

nvmlDeviceGetVirtualizationMode ==
  Call("connection_for_device", <<F("device", "nvmlDevice_t")>>,
    <<F("pVirtualMode", "nvmlGpuVirtualizationMode_t"), F("return_value", "nvmlReturn_t")>>)

nvmlDeviceIsMigDeviceHandle ==
  Call("connection_for_device", <<F("device", "nvmlDevice_t")>>,
    <<F("isMigDevice", "unsigned int"), F("return_value", "nvmlReturn_t")>>)

nvmlDeviceGetNvLinkRemoteDeviceType ==
  Call("connection_for_device", <<F("device", "nvmlDevice_t"), F("link", "unsigned int")>>,
    <<F("pNvLinkDeviceType", "nvmlIntNvLinkDeviceType_t"), F("return_value", "nvmlReturn_t")>>)

nvmlDeviceGetNvLinkRemotePciInfo_v2 ==
  Call("connection_for_device", <<F("device", "nvmlDevice_t"), F("link", "unsigned int")>>,
    <<F("pci", "nvmlPciInfo_t"), F("return_value", "nvmlReturn_t")>>)

nvmlDeviceGetCudaComputeCapability ==
  Call("connection_for_device", <<F("device", "nvmlDevice_t")>>,
    <<F("major", "int"), F("minor", "int"), F("return_value", "nvmlReturn_t")>>)

NvmlStubsTable ==
  [nvmlSystemGetDriverVersion |-> nvmlSystemGetDriverVersion,
   nvmlSystemGetNVMLVersion |-> nvmlSystemGetNVMLVersion,
   nvmlSystemGetCudaDriverVersion |-> nvmlSystemGetCudaDriverVersion,
   nvmlSystemGetCudaDriverVersion_v2 |-> nvmlSystemGetCudaDriverVersion_v2,
   nvmlDeviceGetHandleByUUID |-> nvmlDeviceGetHandleByUUID,
   nvmlDeviceGetHandleByPciBusId_v2 |-> nvmlDeviceGetHandleByPciBusId_v2,
   nvmlDeviceGetUUID |-> nvmlDeviceGetUUID, nvmlDeviceGetMinorNumber |-> nvmlDeviceGetMinorNumber,
   nvmlDeviceGetPciInfo_v3 |-> nvmlDeviceGetPciInfo_v3,
   nvmlDeviceGetMemoryInfo |-> nvmlDeviceGetMemoryInfo,
   nvmlDeviceGetUtilizationRates |-> nvmlDeviceGetUtilizationRates,
   nvmlDeviceGetTemperature |-> nvmlDeviceGetTemperature,
   nvmlDeviceGetPowerUsage |-> nvmlDeviceGetPowerUsage,
   nvmlDeviceGetPowerManagementLimit |-> nvmlDeviceGetPowerManagementLimit,
   nvmlDeviceGetClockInfo |-> nvmlDeviceGetClockInfo,
   nvmlDeviceGetMaxClockInfo |-> nvmlDeviceGetMaxClockInfo,
   nvmlDeviceGetPerformanceState |-> nvmlDeviceGetPerformanceState,
   nvmlDeviceGetComputeMode |-> nvmlDeviceGetComputeMode,
   nvmlDeviceGetPersistenceMode |-> nvmlDeviceGetPersistenceMode,
   nvmlDeviceGetFanSpeed |-> nvmlDeviceGetFanSpeed, nvmlDeviceGetBrand |-> nvmlDeviceGetBrand,
   nvmlDeviceGetVbiosVersion |-> nvmlDeviceGetVbiosVersion,
   nvmlDeviceGetSerial |-> nvmlDeviceGetSerial,
   nvmlDeviceGetBoardPartNumber |-> nvmlDeviceGetBoardPartNumber,
   nvmlDeviceGetDisplayMode |-> nvmlDeviceGetDisplayMode,
   nvmlDeviceGetDisplayActive |-> nvmlDeviceGetDisplayActive,
   nvmlDeviceGetCurrPcieLinkGeneration |-> nvmlDeviceGetCurrPcieLinkGeneration,
   nvmlDeviceGetCurrPcieLinkWidth |-> nvmlDeviceGetCurrPcieLinkWidth,
   nvmlDeviceGetMaxPcieLinkGeneration |-> nvmlDeviceGetMaxPcieLinkGeneration,
   nvmlDeviceGetMaxPcieLinkWidth |-> nvmlDeviceGetMaxPcieLinkWidth,
   nvmlDeviceGetPcieThroughput |-> nvmlDeviceGetPcieThroughput,
   nvmlDeviceGetPcieReplayCounter |-> nvmlDeviceGetPcieReplayCounter,
   nvmlDeviceGetComputeRunningProcesses |-> nvmlDeviceGetComputeRunningProcesses,
   nvmlDeviceGetComputeRunningProcesses_v2 |-> nvmlDeviceGetComputeRunningProcesses_v2,
   nvmlDeviceGetComputeRunningProcesses_v3 |-> nvmlDeviceGetComputeRunningProcesses_v3,
   nvmlDeviceGetProcessUtilization |-> nvmlDeviceGetProcessUtilization,
   nvmlDeviceGetGraphicsRunningProcesses |-> nvmlDeviceGetGraphicsRunningProcesses,
   nvmlDeviceGetGraphicsRunningProcesses_v2 |-> nvmlDeviceGetGraphicsRunningProcesses_v2,
   nvmlDeviceGetGraphicsRunningProcesses_v3 |-> nvmlDeviceGetGraphicsRunningProcesses_v3,
   nvmlDeviceGetMPSComputeRunningProcesses |-> nvmlDeviceGetMPSComputeRunningProcesses,
   nvmlDeviceGetMPSComputeRunningProcesses_v2 |-> nvmlDeviceGetMPSComputeRunningProcesses_v2,
   nvmlDeviceGetMPSComputeRunningProcesses_v3 |-> nvmlDeviceGetMPSComputeRunningProcesses_v3,
   nvmlDeviceGetMaxMigDeviceCount |-> nvmlDeviceGetMaxMigDeviceCount,
   nvmlDeviceGetTotalEccErrors |-> nvmlDeviceGetTotalEccErrors,
   nvmlDeviceGetDetailedEccErrors |-> nvmlDeviceGetDetailedEccErrors,
   nvmlDeviceGetMemoryErrorCounter |-> nvmlDeviceGetMemoryErrorCounter,
   nvmlDeviceGetEccMode |-> nvmlDeviceGetEccMode,
   nvmlDeviceGetTemperatureV |-> nvmlDeviceGetTemperatureV,
   nvmlDeviceGetEnforcedPowerLimit |-> nvmlDeviceGetEnforcedPowerLimit,
   nvmlDeviceGetMemoryInfo_v2 |-> nvmlDeviceGetMemoryInfo_v2,
   nvmlDeviceGetMigMode |-> nvmlDeviceGetMigMode,
   nvmlDeviceGetVirtualizationMode |-> nvmlDeviceGetVirtualizationMode,
   nvmlDeviceIsMigDeviceHandle |-> nvmlDeviceIsMigDeviceHandle,
   nvmlDeviceGetNvLinkRemoteDeviceType |-> nvmlDeviceGetNvLinkRemoteDeviceType,
   nvmlDeviceGetNvLinkRemotePciInfo_v2 |-> nvmlDeviceGetNvLinkRemotePciInfo_v2,
   nvmlDeviceGetCudaComputeCapability |-> nvmlDeviceGetCudaComputeCapability]
=============================================================================
