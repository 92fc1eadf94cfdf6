---------------------------- MODULE NvmlHandlers ----------------------------
(*****************************************************************************)
(* The generated NVML handlers of the server, codegen/gen_nvml_server.inc,   *)
(* for the requests the stubs of NvmlStubs send.                             *)
(*****************************************************************************)
EXTENDS RpcFields

handle_nvmlSystemGetDriverVersion ==
  Reply(<<F("length", "unsigned int"), AllocArr("version", {"length"})>>,
    <<Arr("version", "char", {"length"}), F("return_value", "nvmlReturn_t")>>)

handle_nvmlSystemGetNVMLVersion ==
  Reply(<<F("length", "unsigned int"), AllocArr("version", {"length"})>>,
    <<Arr("version", "char", {"length"}), F("return_value", "nvmlReturn_t")>>)

handle_nvmlSystemGetCudaDriverVersion ==
  Reply(<<>>, <<F("cudaDriverVersion", "int"), F("return_value", "nvmlReturn_t")>>)

handle_nvmlSystemGetCudaDriverVersion_v2 ==
  Reply(<<>>, <<F("cudaDriverVersion", "int"), F("return_value", "nvmlReturn_t")>>)

handle_nvmlDeviceGetHandleByUUID ==
  Reply(<<F("uuid_len", "unsigned int"), AllocArr("uuid", {"uuid_len"}),
      Arr("uuid", "byte", {"uuid_len"})>>,
    <<F("device", "nvmlDevice_t"), F("return_value", "nvmlReturn_t")>>)

handle_nvmlDeviceGetHandleByPciBusId_v2 ==
  Reply(<<F("pciBusId_len", "unsigned int"), AllocArr("pciBusId", {"pciBusId_len"}),
      Arr("pciBusId", "byte", {"pciBusId_len"})>>,
    <<F("device", "nvmlDevice_t"), F("return_value", "nvmlReturn_t")>>)

handle_nvmlDeviceGetUUID ==
  Reply(<<F("device", "nvmlDevice_t"), F("length", "unsigned int"), AllocArr("uuid", {"length"})>>,
    <<Arr("uuid", "char", {"length"}), F("return_value", "nvmlReturn_t")>>)

handle_nvmlDeviceGetMinorNumber ==
  Reply(<<F("device", "nvmlDevice_t")>>,
    <<F("minorNumber", "unsigned int"), F("return_value", "nvmlReturn_t")>>)

handle_nvmlDeviceGetPciInfo_v3 ==
  Reply(<<F("device", "nvmlDevice_t")>>,
    <<F("pci", "nvmlPciInfo_t"), F("return_value", "nvmlReturn_t")>>)

handle_nvmlDeviceGetMemoryInfo ==
  Reply(<<F("device", "nvmlDevice_t")>>,
    <<F("memory", "nvmlMemory_t"), F("return_value", "nvmlReturn_t")>>)

handle_nvmlDeviceGetUtilizationRates ==
  Reply(<<F("device", "nvmlDevice_t")>>,
    <<F("utilization", "nvmlUtilization_t"), F("return_value", "nvmlReturn_t")>>)

handle_nvmlDeviceGetTemperature ==
  Reply(<<F("device", "nvmlDevice_t"), F("sensorType", "nvmlTemperatureSensors_t")>>,
    <<F("temp", "unsigned int"), F("return_value", "nvmlReturn_t")>>)

handle_nvmlDeviceGetPowerUsage ==
  Reply(<<F("device", "nvmlDevice_t")>>,
    <<F("power", "unsigned int"), F("return_value", "nvmlReturn_t")>>)

handle_nvmlDeviceGetPowerManagementLimit ==
  Reply(<<F("device", "nvmlDevice_t")>>,
    <<F("limit", "unsigned int"), F("return_value", "nvmlReturn_t")>>)

handle_nvmlDeviceGetClockInfo ==
  Reply(<<F("device", "nvmlDevice_t"), F("type", "nvmlClockType_t")>>,
    <<F("clock", "unsigned int"), F("return_value", "nvmlReturn_t")>>)

handle_nvmlDeviceGetMaxClockInfo ==
  Reply(<<F("device", "nvmlDevice_t"), F("type", "nvmlClockType_t")>>,
    <<F("clock", "unsigned int"), F("return_value", "nvmlReturn_t")>>)

handle_nvmlDeviceGetPerformanceState ==
  Reply(<<F("device", "nvmlDevice_t")>>,
    <<F("pState", "nvmlPstates_t"), F("return_value", "nvmlReturn_t")>>)

handle_nvmlDeviceGetComputeMode ==
  Reply(<<F("device", "nvmlDevice_t")>>,
    <<F("mode", "nvmlComputeMode_t"), F("return_value", "nvmlReturn_t")>>)

handle_nvmlDeviceGetPersistenceMode ==
  Reply(<<F("device", "nvmlDevice_t")>>,
    <<F("mode", "nvmlEnableState_t"), F("return_value", "nvmlReturn_t")>>)

handle_nvmlDeviceGetFanSpeed ==
  Reply(<<F("device", "nvmlDevice_t")>>,
    <<F("speed", "unsigned int"), F("return_value", "nvmlReturn_t")>>)

handle_nvmlDeviceGetBrand ==
  Reply(<<F("device", "nvmlDevice_t")>>,
    <<F("type", "nvmlBrandType_t"), F("return_value", "nvmlReturn_t")>>)

handle_nvmlDeviceGetVbiosVersion ==
  Reply(<<F("device", "nvmlDevice_t"), F("length", "unsigned int"),
      AllocArr("version", {"length"})>>,
    <<Arr("version", "char", {"length"}), F("return_value", "nvmlReturn_t")>>)

handle_nvmlDeviceGetSerial ==
  Reply(<<F("device", "nvmlDevice_t"), F("length", "unsigned int"),
      AllocArr("serial", {"length"})>>,
    <<Arr("serial", "char", {"length"}), F("return_value", "nvmlReturn_t")>>)

handle_nvmlDeviceGetBoardPartNumber ==
  Reply(<<F("device", "nvmlDevice_t"), F("length", "unsigned int"),
      AllocArr("partNumber", {"length"})>>,
    <<Arr("partNumber", "char", {"length"}), F("return_value", "nvmlReturn_t")>>)

handle_nvmlDeviceGetDisplayMode ==
  Reply(<<F("device", "nvmlDevice_t")>>,
    <<F("display", "nvmlEnableState_t"), F("return_value", "nvmlReturn_t")>>)

handle_nvmlDeviceGetDisplayActive ==
  Reply(<<F("device", "nvmlDevice_t")>>,
    <<F("isActive", "nvmlEnableState_t"), F("return_value", "nvmlReturn_t")>>)

handle_nvmlDeviceGetCurrPcieLinkGeneration ==
  Reply(<<F("device", "nvmlDevice_t")>>,
    <<F("currLinkGen", "unsigned int"), F("return_value", "nvmlReturn_t")>>)

handle_nvmlDeviceGetCurrPcieLinkWidth ==
  Reply(<<F("device", "nvmlDevice_t")>>,
    <<F("currLinkWidth", "unsigned int"), F("return_value", "nvmlReturn_t")>>)

handle_nvmlDeviceGetMaxPcieLinkGeneration ==
  Reply(<<F("device", "nvmlDevice_t")>>,
    <<F("maxLinkGen", "unsigned int"), F("return_value", "nvmlReturn_t")>>)

handle_nvmlDeviceGetMaxPcieLinkWidth ==
  Reply(<<F("device", "nvmlDevice_t")>>,
    <<F("maxLinkWidth", "unsigned int"), F("return_value", "nvmlReturn_t")>>)

handle_nvmlDeviceGetPcieThroughput ==
  Reply(<<F("device", "nvmlDevice_t"), F("counter", "nvmlPcieUtilCounter_t")>>,
    <<F("value", "unsigned int"), F("return_value", "nvmlReturn_t")>>)

handle_nvmlDeviceGetPcieReplayCounter ==
  Reply(<<F("device", "nvmlDevice_t")>>,
    <<F("value", "unsigned int"), F("return_value", "nvmlReturn_t")>>)

handle_nvmlDeviceGetComputeRunningProcesses ==
  Driver([infoCount : Out, return_value : Flag],
  Reply(<<F("device", "nvmlDevice_t"), F("infoCount_requested", "unsigned int"),
      F("infos_null", "uint8_t"), AllocUnless("infos_null", "infos")>>,
    <<Fits("infos_null", "infoCount", "infoCount_requested"), F("infoCount", "unsigned int"),
        HasData("infos_has_data", "infos_null"), F("infos_has_data", "uint8_t"),
        ArrIf("infos_has_data", "infos", "nvmlProcessInfo_v1_t", {"infoCount"}),
        F("return_value", "nvmlReturn_t")>>))

handle_nvmlDeviceGetComputeRunningProcesses_v2 ==
  Driver([infoCount : Out, return_value : Flag],
  Reply(<<F("device", "nvmlDevice_t"), F("infoCount_requested", "unsigned int"),
      F("infos_null", "uint8_t"), AllocUnless("infos_null", "infos")>>,
    <<Fits("infos_null", "infoCount", "infoCount_requested"), F("infoCount", "unsigned int"),
        HasData("infos_has_data", "infos_null"), F("infos_has_data", "uint8_t"),
        ArrIf("infos_has_data", "infos", "nvmlProcessInfo_v2_t", {"infoCount"}),
        F("return_value", "nvmlReturn_t")>>))

\* Mutant: the driver's count is not compared with the buffer's.
handle_nvmlDeviceGetComputeRunningProcesses_v3Unchecked ==
  Driver([infoCount : Out, return_value : Flag],
  Reply(<<F("device", "nvmlDevice_t"), F("infoCount_requested", "unsigned int"),
      F("infos_null", "uint8_t"), AllocUnless("infos_null", "infos")>>,
    <<F("infoCount", "unsigned int"), HasData("infos_has_data", "infos_null"),
        F("infos_has_data", "uint8_t"),
        ArrIf("infos_has_data", "infos", "nvmlProcessInfo_t", {"infoCount"}),
        F("return_value", "nvmlReturn_t")>>))

handle_nvmlDeviceGetComputeRunningProcesses_v3 ==
  Driver([infoCount : Out, return_value : Flag],
  Reply(<<F("device", "nvmlDevice_t"), F("infoCount_requested", "unsigned int"),
      F("infos_null", "uint8_t"), AllocUnless("infos_null", "infos")>>,
    <<Fits("infos_null", "infoCount", "infoCount_requested"), F("infoCount", "unsigned int"),
        HasData("infos_has_data", "infos_null"), F("infos_has_data", "uint8_t"),
        ArrIf("infos_has_data", "infos", "nvmlProcessInfo_t", {"infoCount"}),
        F("return_value", "nvmlReturn_t")>>))

handle_nvmlDeviceGetProcessUtilization ==
  Driver([processSamplesCount : Out, return_value : Flag],
  Reply(<<F("device", "nvmlDevice_t"), F("processSamplesCount_requested", "unsigned int"),
      F("utilization_null", "uint8_t"), AllocUnless("utilization_null", "utilization"),
      F("lastSeenTimeStamp", "unsigned long long")>>,
    <<Fits("utilization_null", "processSamplesCount", "processSamplesCount_requested"),
        F("processSamplesCount", "unsigned int"),
        HasData("utilization_has_data", "utilization_null"), F("utilization_has_data", "uint8_t"),
        ArrIf("utilization_has_data", "utilization", "nvmlProcessUtilizationSample_t",
            {"processSamplesCount"}),
        F("return_value", "nvmlReturn_t")>>))

handle_nvmlDeviceGetGraphicsRunningProcesses ==
  Driver([infoCount : Out, return_value : Flag],
  Reply(<<F("device", "nvmlDevice_t"), F("infoCount_requested", "unsigned int"),
      F("infos_null", "uint8_t"), AllocUnless("infos_null", "infos")>>,
    <<Fits("infos_null", "infoCount", "infoCount_requested"), F("infoCount", "unsigned int"),
        HasData("infos_has_data", "infos_null"), F("infos_has_data", "uint8_t"),
        ArrIf("infos_has_data", "infos", "nvmlProcessInfo_v1_t", {"infoCount"}),
        F("return_value", "nvmlReturn_t")>>))

handle_nvmlDeviceGetGraphicsRunningProcesses_v2 ==
  Driver([infoCount : Out, return_value : Flag],
  Reply(<<F("device", "nvmlDevice_t"), F("infoCount_requested", "unsigned int"),
      F("infos_null", "uint8_t"), AllocUnless("infos_null", "infos")>>,
    <<Fits("infos_null", "infoCount", "infoCount_requested"), F("infoCount", "unsigned int"),
        HasData("infos_has_data", "infos_null"), F("infos_has_data", "uint8_t"),
        ArrIf("infos_has_data", "infos", "nvmlProcessInfo_v2_t", {"infoCount"}),
        F("return_value", "nvmlReturn_t")>>))

handle_nvmlDeviceGetGraphicsRunningProcesses_v3 ==
  Driver([infoCount : Out, return_value : Flag],
  Reply(<<F("device", "nvmlDevice_t"), F("infoCount_requested", "unsigned int"),
      F("infos_null", "uint8_t"), AllocUnless("infos_null", "infos")>>,
    <<Fits("infos_null", "infoCount", "infoCount_requested"), F("infoCount", "unsigned int"),
        HasData("infos_has_data", "infos_null"), F("infos_has_data", "uint8_t"),
        ArrIf("infos_has_data", "infos", "nvmlProcessInfo_t", {"infoCount"}),
        F("return_value", "nvmlReturn_t")>>))

handle_nvmlDeviceGetMPSComputeRunningProcesses ==
  Driver([infoCount : Out, return_value : Flag],
  Reply(<<F("device", "nvmlDevice_t"), F("infoCount_requested", "unsigned int"),
      F("infos_null", "uint8_t"), AllocUnless("infos_null", "infos")>>,
    <<Fits("infos_null", "infoCount", "infoCount_requested"), F("infoCount", "unsigned int"),
        HasData("infos_has_data", "infos_null"), F("infos_has_data", "uint8_t"),
        ArrIf("infos_has_data", "infos", "nvmlProcessInfo_v1_t", {"infoCount"}),
        F("return_value", "nvmlReturn_t")>>))

handle_nvmlDeviceGetMPSComputeRunningProcesses_v2 ==
  Driver([infoCount : Out, return_value : Flag],
  Reply(<<F("device", "nvmlDevice_t"), F("infoCount_requested", "unsigned int"),
      F("infos_null", "uint8_t"), AllocUnless("infos_null", "infos")>>,
    <<Fits("infos_null", "infoCount", "infoCount_requested"), F("infoCount", "unsigned int"),
        HasData("infos_has_data", "infos_null"), F("infos_has_data", "uint8_t"),
        ArrIf("infos_has_data", "infos", "nvmlProcessInfo_v2_t", {"infoCount"}),
        F("return_value", "nvmlReturn_t")>>))

handle_nvmlDeviceGetMPSComputeRunningProcesses_v3 ==
  Driver([infoCount : Out, return_value : Flag],
  Reply(<<F("device", "nvmlDevice_t"), F("infoCount_requested", "unsigned int"),
      F("infos_null", "uint8_t"), AllocUnless("infos_null", "infos")>>,
    <<Fits("infos_null", "infoCount", "infoCount_requested"), F("infoCount", "unsigned int"),
        HasData("infos_has_data", "infos_null"), F("infos_has_data", "uint8_t"),
        ArrIf("infos_has_data", "infos", "nvmlProcessInfo_t", {"infoCount"}),
        F("return_value", "nvmlReturn_t")>>))

handle_nvmlDeviceGetMaxMigDeviceCount ==
  Reply(<<F("device", "nvmlDevice_t")>>,
    <<F("count", "unsigned int"), F("return_value", "nvmlReturn_t")>>)

handle_nvmlDeviceGetTotalEccErrors ==
  Reply(<<F("device", "nvmlDevice_t"), F("errorType", "nvmlMemoryErrorType_t"),
      F("counterType", "nvmlEccCounterType_t")>>,
    <<F("eccCounts", "unsigned long long"), F("return_value", "nvmlReturn_t")>>)

handle_nvmlDeviceGetDetailedEccErrors ==
  Reply(<<F("device", "nvmlDevice_t"), F("errorType", "nvmlMemoryErrorType_t"),
      F("counterType", "nvmlEccCounterType_t")>>,
    <<F("eccCounts", "nvmlEccErrorCounts_t"), F("return_value", "nvmlReturn_t")>>)

handle_nvmlDeviceGetMemoryErrorCounter ==
  Reply(<<F("device", "nvmlDevice_t"), F("errorType", "nvmlMemoryErrorType_t"),
      F("counterType", "nvmlEccCounterType_t"), F("locationType", "nvmlMemoryLocation_t")>>,
    <<F("count", "unsigned long long"), F("return_value", "nvmlReturn_t")>>)

handle_nvmlDeviceGetEccMode ==
  Reply(<<F("device", "nvmlDevice_t")>>,
    <<F("current", "nvmlEnableState_t"), F("pending", "nvmlEnableState_t"),
        F("return_value", "nvmlReturn_t")>>)

handle_nvmlDeviceGetTemperatureV ==
  Reply(<<F("device", "nvmlDevice_t"), F("temperature", "lupine_nvmlTemperature_t")>>,
    <<F("temperature", "lupine_nvmlTemperature_t"), F("return_value", "nvmlReturn_t")>>)

handle_nvmlDeviceGetEnforcedPowerLimit ==
  Reply(<<F("device", "nvmlDevice_t")>>,
    <<F("limit", "unsigned int"), F("return_value", "nvmlReturn_t")>>)

handle_nvmlDeviceGetMemoryInfo_v2 ==
  Reply(<<F("device", "nvmlDevice_t"), F("memory", "nvmlMemory_v2_t")>>,
    <<F("memory", "nvmlMemory_v2_t"), F("return_value", "nvmlReturn_t")>>)

handle_nvmlDeviceGetMigMode ==
  Reply(<<F("device", "nvmlDevice_t")>>,
    <<F("currentMode", "unsigned int"), F("pendingMode", "unsigned int"),
        F("return_value", "nvmlReturn_t")>>)

handle_nvmlDeviceGetVirtualizationMode ==
  Reply(<<F("device", "nvmlDevice_t")>>,
    <<F("pVirtualMode", "nvmlGpuVirtualizationMode_t"), F("return_value", "nvmlReturn_t")>>)

handle_nvmlDeviceIsMigDeviceHandle ==
  Reply(<<F("device", "nvmlDevice_t")>>,
    <<F("isMigDevice", "unsigned int"), F("return_value", "nvmlReturn_t")>>)

handle_nvmlDeviceGetNvLinkRemoteDeviceType ==
  Reply(<<F("device", "nvmlDevice_t"), F("link", "unsigned int")>>,
    <<F("pNvLinkDeviceType", "nvmlIntNvLinkDeviceType_t"), F("return_value", "nvmlReturn_t")>>)

handle_nvmlDeviceGetNvLinkRemotePciInfo_v2 ==
  Reply(<<F("device", "nvmlDevice_t"), F("link", "unsigned int")>>,
    <<F("pci", "nvmlPciInfo_t"), F("return_value", "nvmlReturn_t")>>)

handle_nvmlDeviceGetCudaComputeCapability ==
  Reply(<<F("device", "nvmlDevice_t")>>,
    <<F("major", "int"), F("minor", "int"), F("return_value", "nvmlReturn_t")>>)

NvmlHandlersTable ==
  [nvmlSystemGetDriverVersion |-> handle_nvmlSystemGetDriverVersion,
   nvmlSystemGetNVMLVersion |-> handle_nvmlSystemGetNVMLVersion,
   nvmlSystemGetCudaDriverVersion |-> handle_nvmlSystemGetCudaDriverVersion,
   nvmlSystemGetCudaDriverVersion_v2 |-> handle_nvmlSystemGetCudaDriverVersion_v2,
   nvmlDeviceGetHandleByUUID |-> handle_nvmlDeviceGetHandleByUUID,
   nvmlDeviceGetHandleByPciBusId_v2 |-> handle_nvmlDeviceGetHandleByPciBusId_v2,
   nvmlDeviceGetUUID |-> handle_nvmlDeviceGetUUID,
   nvmlDeviceGetMinorNumber |-> handle_nvmlDeviceGetMinorNumber,
   nvmlDeviceGetPciInfo_v3 |-> handle_nvmlDeviceGetPciInfo_v3,
   nvmlDeviceGetMemoryInfo |-> handle_nvmlDeviceGetMemoryInfo,
   nvmlDeviceGetUtilizationRates |-> handle_nvmlDeviceGetUtilizationRates,
   nvmlDeviceGetTemperature |-> handle_nvmlDeviceGetTemperature,
   nvmlDeviceGetPowerUsage |-> handle_nvmlDeviceGetPowerUsage,
   nvmlDeviceGetPowerManagementLimit |-> handle_nvmlDeviceGetPowerManagementLimit,
   nvmlDeviceGetClockInfo |-> handle_nvmlDeviceGetClockInfo,
   nvmlDeviceGetMaxClockInfo |-> handle_nvmlDeviceGetMaxClockInfo,
   nvmlDeviceGetPerformanceState |-> handle_nvmlDeviceGetPerformanceState,
   nvmlDeviceGetComputeMode |-> handle_nvmlDeviceGetComputeMode,
   nvmlDeviceGetPersistenceMode |-> handle_nvmlDeviceGetPersistenceMode,
   nvmlDeviceGetFanSpeed |-> handle_nvmlDeviceGetFanSpeed,
   nvmlDeviceGetBrand |-> handle_nvmlDeviceGetBrand,
   nvmlDeviceGetVbiosVersion |-> handle_nvmlDeviceGetVbiosVersion,
   nvmlDeviceGetSerial |-> handle_nvmlDeviceGetSerial,
   nvmlDeviceGetBoardPartNumber |-> handle_nvmlDeviceGetBoardPartNumber,
   nvmlDeviceGetDisplayMode |-> handle_nvmlDeviceGetDisplayMode,
   nvmlDeviceGetDisplayActive |-> handle_nvmlDeviceGetDisplayActive,
   nvmlDeviceGetCurrPcieLinkGeneration |-> handle_nvmlDeviceGetCurrPcieLinkGeneration,
   nvmlDeviceGetCurrPcieLinkWidth |-> handle_nvmlDeviceGetCurrPcieLinkWidth,
   nvmlDeviceGetMaxPcieLinkGeneration |-> handle_nvmlDeviceGetMaxPcieLinkGeneration,
   nvmlDeviceGetMaxPcieLinkWidth |-> handle_nvmlDeviceGetMaxPcieLinkWidth,
   nvmlDeviceGetPcieThroughput |-> handle_nvmlDeviceGetPcieThroughput,
   nvmlDeviceGetPcieReplayCounter |-> handle_nvmlDeviceGetPcieReplayCounter,
   nvmlDeviceGetComputeRunningProcesses |-> handle_nvmlDeviceGetComputeRunningProcesses,
   nvmlDeviceGetComputeRunningProcesses_v2 |-> handle_nvmlDeviceGetComputeRunningProcesses_v2,
   nvmlDeviceGetComputeRunningProcesses_v3 |-> handle_nvmlDeviceGetComputeRunningProcesses_v3,
   nvmlDeviceGetProcessUtilization |-> handle_nvmlDeviceGetProcessUtilization,
   nvmlDeviceGetGraphicsRunningProcesses |-> handle_nvmlDeviceGetGraphicsRunningProcesses,
   nvmlDeviceGetGraphicsRunningProcesses_v2 |-> handle_nvmlDeviceGetGraphicsRunningProcesses_v2,
   nvmlDeviceGetGraphicsRunningProcesses_v3 |-> handle_nvmlDeviceGetGraphicsRunningProcesses_v3,
   nvmlDeviceGetMPSComputeRunningProcesses |-> handle_nvmlDeviceGetMPSComputeRunningProcesses,
   nvmlDeviceGetMPSComputeRunningProcesses_v2 |-> handle_nvmlDeviceGetMPSComputeRunningProcesses_v2,
   nvmlDeviceGetMPSComputeRunningProcesses_v3 |-> handle_nvmlDeviceGetMPSComputeRunningProcesses_v3,
   nvmlDeviceGetMaxMigDeviceCount |-> handle_nvmlDeviceGetMaxMigDeviceCount,
   nvmlDeviceGetTotalEccErrors |-> handle_nvmlDeviceGetTotalEccErrors,
   nvmlDeviceGetDetailedEccErrors |-> handle_nvmlDeviceGetDetailedEccErrors,
   nvmlDeviceGetMemoryErrorCounter |-> handle_nvmlDeviceGetMemoryErrorCounter,
   nvmlDeviceGetEccMode |-> handle_nvmlDeviceGetEccMode,
   nvmlDeviceGetTemperatureV |-> handle_nvmlDeviceGetTemperatureV,
   nvmlDeviceGetEnforcedPowerLimit |-> handle_nvmlDeviceGetEnforcedPowerLimit,
   nvmlDeviceGetMemoryInfo_v2 |-> handle_nvmlDeviceGetMemoryInfo_v2,
   nvmlDeviceGetMigMode |-> handle_nvmlDeviceGetMigMode,
   nvmlDeviceGetVirtualizationMode |-> handle_nvmlDeviceGetVirtualizationMode,
   nvmlDeviceIsMigDeviceHandle |-> handle_nvmlDeviceIsMigDeviceHandle,
   nvmlDeviceGetNvLinkRemoteDeviceType |-> handle_nvmlDeviceGetNvLinkRemoteDeviceType,
   nvmlDeviceGetNvLinkRemotePciInfo_v2 |-> handle_nvmlDeviceGetNvLinkRemotePciInfo_v2,
   nvmlDeviceGetCudaComputeCapability |-> handle_nvmlDeviceGetCudaComputeCapability]
=============================================================================
