------------------------------ MODULE RmEscapes ------------------------------
(***************************************************************************)
(* The escapes of /dev/nvidiactl and /dev/nvidia<n> that decode/ioctl_rm.rs*)
(* decodes, as scripts.  `declared' is the size in the ioctl number, 0 for *)
(* the numbers that state none.                                            *)
(***************************************************************************)
EXTENDS DecodeSteps

Room(declared) == IF declared = 0 THEN NoRoom ELSE declared

\* A mutant of read_checked_pod: a failed copy is not noticed.
read_checked_podBlind(declared, t, then) ==
    IF declared > 0 /\ declared < t.size
    THEN <<Put("size_mismatch")>>
    ELSE <<try_pod("arg", 0, t, Room(declared))>> \o then

read_checked_pod(declared, t, then) ==
    IF declared > 0 /\ declared < t.size
    THEN <<Put("size_mismatch")>>
    ELSE <<read_pod("arg", 0, t, Room(declared), <<Put("arg_unreadable")>>)>>
            \o then

\* The escapes that only show the fields of their structure.
Plain(declared, t) == read_checked_pod(declared, t, <<Put("ok")>>)

decode_rm_alloc_object(declared) == Plain(declared, NvOs05Parameters)
decode_rm_free(declared) == Plain(declared, NvOs00Parameters)
decode_rm_unmap_memory(declared) == Plain(declared, NvOs34Parameters)
decode_rm_i2c_access(declared) == Plain(declared, RmI2cAccessParams)
decode_rm_idle_channels(declared) == Plain(declared, RmIdleChannelsParams)
decode_rm_alloc_context_dma2(declared) ==
    Plain(declared, RmAllocContextDma2Params)
decode_rm_map_memory_dma(declared) == Plain(declared, RmMapMemoryDmaParams)
decode_rm_unmap_memory_dma(declared) == Plain(declared, RmUnmapMemoryDmaParams)
decode_rm_bind_context_dma(declared) == Plain(declared, RmBindContextDmaParams)
decode_rm_dup_object(declared) == Plain(declared, RmDupObjectParams)
decode_rm_update_device_mapping_info(declared) ==
    Plain(declared, RmUpdateDeviceMappingInfoParams)
decode_rm_share(declared) == Plain(declared, RmShareParams)
decode_rm_add_vblank_callback(declared) ==
    Plain(declared, RmAddVblankCallbackParams)
decode_register_fd(declared) == Plain(declared, NvIoctlRegisterFd)
decode_alloc_free_os_event(declared) == Plain(declared, NvIoctlAllocOsEvent)
decode_status_code(declared) == Plain(declared, NvIoctlStatusCode)
decode_rm_api_version(declared) == Plain(declared, NvIoctlRmApiVersion)
decode_query_device_intr(declared) == Plain(declared, NvIoctlQueryDeviceIntr)
decode_sys_params(declared) == Plain(declared, NvIoctlSysParams)
decode_wait_open_complete(declared) == Plain(declared, NvIoctlWaitOpenComplete)
decode_set_numa_status(declared) == Plain(declared, NvIoctlSetNumaStatus)
decode_export_to_dmabuf(declared) ==
    Plain(declared, NvIoctlExportToDmaBufFdPrefix)

\* Sizes that xfer.size may state: one too small for the structure behind
\* xfer.ptr and one that fits.
XferSizes == {NvOs54Parameters.size - 1, NvOs54Parameters.size}

\* Neither the size in the ioctl number nor xfer.size is looked at.
decode_xfer(declared, mode) ==
    <<read_pod("arg", 0, NvIoctlXfer, Room(declared), <<Put("xfer_unreadable")>>)>>
    \o IF mode # "full" THEN <<Put("ok")>>
       ELSE <<OneOf({<<Put("xfer_non_nvos54")>>} \cup
                    {<<read_pod("os54", 0, NvOs54Parameters, size,
                                <<Put("os54_unreadable")>>), Payload>> :
                       size \in XferSizes})>>

decode_rm_control(declared) ==
    read_checked_pod(declared, NvOs54Parameters, <<Payload>>)

decode_rm_alloc_memory(declared) ==
    IF declared >= NvIoctlNvos02ParametersWithFd.size
    THEN Plain(declared, NvIoctlNvos02ParametersWithFd)
    ELSE IF declared >= NvOs02Parameters.size
         THEN Plain(declared, NvOs02Parameters)
         ELSE <<Put("size_mismatch")>>

decode_alloc_blob == Blob(AtLeast(16))

decode_rm_alloc(declared) ==
    LET then == <<decode_alloc_blob, Put("ok")>> IN
    IF declared >= NvOs64Parameters.size
    THEN read_checked_pod(declared, NvOs64Parameters, then)
    ELSE IF declared >= NvOs21Parameters.size
         THEN read_checked_pod(declared, NvOs21Parameters, then)
         ELSE <<Put("size_mismatch")>>

decode_rm_map_memory(declared) ==
    IF declared >= NvIoctlNvos33ParametersWithFd.size
    THEN Plain(declared, NvIoctlNvos33ParametersWithFd)
    ELSE <<Put("size_mismatch")>>

\* The data after the prefix depends on the function.  Only the prefix was
\* checked against the declared size.
decode_rm_vid_heap_control(declared) ==
    LET data(t) == <<try_pod("arg", RmVidHeapControlPrefix.size, t,
                             Room(declared))>> IN
    read_checked_pod(declared, RmVidHeapControlPrefix,
        <<OneOf({<<>>, data(RmVidHeapAllocSizeData), data(RmVidHeapFreeData),
                 data(RmVidHeapAllocOsDescData)}), Put("ok")>>)

read_remote_string == Text(AtLeast(32))

decode_rm_access_registry(declared) ==
    read_checked_pod(declared, RmAccessRegistryParams,
        <<read_remote_string, read_remote_string, Put("ok")>>)

decode_rm_get_event_data(declared) ==
    read_checked_pod(declared, RmGetEventDataParams,
        <<OneOf({<<>>, <<try_pod("event", 0, RmUnixEvent, NoRoom)>>}),
          Put("ok")>>)

decode_rm_opaque(declared) ==
    IF declared >= U32.size
    THEN <<try_pod("arg", declared - U32.size, U32, declared), Put("opaque")>>
    ELSE <<Put("opaque")>>

decode_numa_info(declared) ==
    read_checked_pod(declared, NvIoctlNumaInfo,
        <<SampledList(64, 16), Put("ok")>>)

decode_attach_gpus(declared) ==
    LET read_len == Least(declared, AtLeast(U32.size)) IN
    IF declared = 0 \/ declared % U32.size # 0
    THEN <<Put("size_unknown")>>
    ELSE <<read_bytes("arg", read_len, declared, <<Put("arg_unreadable")>>),
           ShowWords(read_len, declared), Put("ok")>>

decode_card_info(declared) ==
    LET card_size      == NvIoctlCardInfo.size
        declared_count == declared \div card_size
        read_count     == Least(declared_count, Max({MaxBlob \div card_size, 1}))
        finish(n) == IF n = 0 THEN <<Put("arg_unreadable")>>
                     ELSE <<Show(n, declared_count), Put("ok")>>
    IN  IF declared < card_size
        THEN <<Put("size_mismatch")>>
        ELSE [n \in 1..read_count |->
                read_pod("arg", (n - 1) * card_size, NvIoctlCardInfo, declared,
                         finish(n - 1))]
             \o finish(read_count)

decode_unknown(declared) ==
    LET read_len == Least(declared, AtLeast(16)) IN
    IF declared = 0
    THEN <<Put("unknown_cmd")>>
    ELSE <<read_bytes("arg", read_len, declared, <<Put("arg_unreadable")>>),
           Show(read_len, declared), Put("partial")>>

decode_nvidia_ioctl(declared, mode) ==
    [ioctl_xfer_cmd |-> decode_xfer(declared, mode),
     rm_control |-> decode_rm_control(declared),
     rm_alloc_memory |-> decode_rm_alloc_memory(declared),
     rm_alloc_object |-> decode_rm_alloc_object(declared),
     rm_alloc |-> decode_rm_alloc(declared),
     rm_free |-> decode_rm_free(declared),
     rm_map_memory |-> decode_rm_map_memory(declared),
     rm_unmap_memory |-> decode_rm_unmap_memory(declared),
     rm_i2c_access |-> decode_rm_i2c_access(declared),
     rm_idle_channels |-> decode_rm_idle_channels(declared),
     rm_vid_heap_control |-> decode_rm_vid_heap_control(declared),
     rm_access_registry |-> decode_rm_access_registry(declared),
     rm_get_event_data |-> decode_rm_get_event_data(declared),
     rm_alloc_context_dma2 |-> decode_rm_alloc_context_dma2(declared),
     rm_map_memory_dma |-> decode_rm_map_memory_dma(declared),
     rm_unmap_memory_dma |-> decode_rm_unmap_memory_dma(declared),
     rm_bind_context_dma |-> decode_rm_bind_context_dma(declared),
     rm_dup_object |-> decode_rm_dup_object(declared),
     rm_update_device_mapping_info |-> decode_rm_update_device_mapping_info(declared),
     rm_share |-> decode_rm_share(declared),
     rm_add_vblank_callback |-> decode_rm_add_vblank_callback(declared),
     rm_config_get |-> decode_rm_opaque(declared),
     rm_config_set |-> decode_rm_opaque(declared),
     rm_config_get_ex |-> decode_rm_opaque(declared),
     rm_config_set_ex |-> decode_rm_opaque(declared),
     rm_export_object_to_fd |-> decode_rm_opaque(declared),
     rm_import_object_from_fd |-> decode_rm_opaque(declared),
     rm_lockless_diagnostic |-> decode_rm_opaque(declared),
     register_fd |-> decode_register_fd(declared),
     alloc_os_event |-> decode_alloc_free_os_event(declared),
     free_os_event |-> decode_alloc_free_os_event(declared),
     status_code |-> decode_status_code(declared),
     check_version_str |-> decode_rm_api_version(declared),
     query_device_intr |-> decode_query_device_intr(declared),
     sys_params |-> decode_sys_params(declared),
     wait_open_complete |-> decode_wait_open_complete(declared),
     numa_info |-> decode_numa_info(declared),
     set_numa_status |-> decode_set_numa_status(declared),
     attach_gpus_to_fd |-> decode_attach_gpus(declared),
     export_to_dmabuf_fd |-> decode_export_to_dmabuf(declared),
     card_info |-> decode_card_info(declared),
     unknown |-> decode_unknown(declared)]
==============================================================================
